# Verification of the linux-ia-course programs

The repository is a course on Linux programming in C. Most of its directories
are lessons, containers and one-file exercises. This directory specifies its
programs with state, concurrency and failure in TLA+, among them two stacks of
small services, the threads of block 05, the shell of block 03, the caches of
block 06, the copies and walks of block 02, the signals of block 03, and the readers of configuration and
reports that the exercises of blocks 08 to 12 solve. It checks
them with TLC on small instances and proves the central facts with TLAPS for
every instance.

- [The system](#the-system): the programs, what each keeps and does
- [Modules](#modules): which module stands for which code
- [Runs](#runs): what TLC checks, with which bounds and which fairness
- [Proofs](#proofs): what holds for all constants, and why
- [What the models say about the code](#what-the-models-say-about-the-code)
- [Limits and what is not modelled](#limits-and-what-is-not-modelled)

## The system

### MiniCloud over HTTP (`bloque14/proyecto14`)

Five processes. Four servers, each with one thread and one connection at a time,
listen on 127.0.0.1; the gateway is a client that runs one flow and exits.

| process | state it keeps | operations |
| --- | --- | --- |
| registry | table of routes, loaded once from a file | `/resolve` (longest prefix that is up), `/snapshot`, `/health` |
| vault | list of secrets, loaded once from a file | `/secret/<name>` (first entry with the name), `/stats`, `/health` |
| runner | free CPU and memory, jobs accepted and rejected | `/run` (limits, capacity, booking), `/stats`, `/health` |
| monitor | counters of events, errors, retries, latency | `/event`, `/report` (severity), `/health` |
| gateway | where its flow is | asks registry, vault and runner in turn, prints one `status=` line, sends one event |

They interact by messages only: one request and one answer on each connection,
the answer in two sends (header, then body), the end of the connection as its
end. Nothing is retried and nothing is written to disk: a server that stops
forgets. What is hard:

- **a process stops between two of its steps.** The runner books before it
  answers; a header may arrive without its body; an answer to a gateway that has
  gone ends the server (SIGPIPE). Correct means: `status=ACCEPT` is printed only
  for a job that was booked, and any other status holds no capacity that the
  runner still remembers as taken.
- **no timeouts.** The gateway reads until the connection ends. Correct means
  that every flow ends whichever server stops, and when.
- **the event is sent last and its answer ignored.** Correct means that the
  report never counts what did not happen, and that a flow on a healthy stack is
  counted before its gateway exits (the repository's test relies on it).
- **limits**: the job that fits exactly, the last job, percentages at their
  thresholds, prefixes of equal length.

### MiniCloud over TCP lines (`bloque13/proyecto13`)

The same five processes with the same files, limits and bookings, but one line
for each request and one line, sent at once, for the answer: there is no status
code and no header. What is hard beside what is hard over HTTP: a connection
that ends before the line of the answer reads as an empty answer, and the gateway
takes everything that is not the answer it hoped for as a refusal. Correct means:
still, `status=ACCEPT` is printed only for a job that was booked; and a refusal
that no server pronounced is printed only when a server has stopped.

### Threads (`bloque05`)

- **e06, a queue that is closed**: producers and consumers around a circular
  buffer, one mutex, two conditions; the last producer wakes everybody. Correct:
  values leave in the order they entered, no thread sleeps beside work it could
  do, consumers leave only when nothing can come any more, and all are joined.
- **e09, thread pool**: `main` enqueues tasks and announces the stop; workers
  take under one lock and account under another. Correct: when `main` has joined,
  every task was counted once.
- **e10, pipeline**: `main`, two stages, two queues, a sentinel. Correct: nothing
  overtakes, is lost or doubled, and backpressure never closes a circle of waits.
- **miniserver**: `main` accepts and puts descriptors in a bounded queue, workers
  take and answer them. Correct: every open descriptor has one owner (the kernel
  gives a closed number to the next client at once, so a second owner would
  answer somebody else), every signal reaches a worker, every client that is not
  silent ends.
- **e05, a counted stock**: one producer, one consumer, two conditions, an end
  announced by a broadcast. Correct: the stock balances at the join.
- **e07, an entry under a read-write lock**: value and version are written one
  after the other. Correct: no reader sees one without the other.
- **e08, a limiter with a semaphore**: more threads than permits, counts under
  another lock. Correct: never more threads inside than permits, all counted.
- **e03, e04, ej52, threads that add to one counter**: between two barriers that
  are made of a mutex and a condition and are used again at once, with nothing, or
  under a mutex. Correct: with the barriers each turn of all threads adds exactly
  one, however late a thread wakes up; under the mutex nothing is lost.
- **ej53, a kitchen**: one cook, several diners, one condition for two reasons to
  wake up. Correct: each dish is eaten once and every diner goes home.

### Copies and walks (`bloque02`)

Five programs copy a file (e01, e02, two of e03, ej21). Calls are interrupted, read
or write less than they were asked for, or fail; the disk fills up. Correct: the
destination holds a beginning of the source, nothing twice, and all of it where
the program reports success and looks at its closes.

Three programs walk a directory tree (e09, e10, the project's minifind) while
others remove, add and replace what is in it: between `readdir`, `lstat` and
`opendir` a name may come to stand for something else, and there are only so many
descriptors. Correct: what was there all the time and can be reached is printed
once if it matches, and the exit status of the two that remember errors tells
whether something was left out.

### minicache (`bloque06/proyecto06`)

One thread, an edge-triggered epoll and a table of entries. Clients connect, send
commands (GET, SET, DEL), read answers or do not, half-close, close, and come in
any order. Correct: the table is a bounded map; since an edge is reported once,
no data, end or waiting connection is left without an event; since descriptors
are used again, no event reaches another connection than its own.

### Cache under poll (`bloque06`, e10)

One thread, `poll`, and clients that have sent everything before the loop starts.
A read may end anywhere in a line: what is left stays in a buffer for the next
read, and lines or tails that do not fit have limits of their own. Correct: the
answers are those of the lines of each client's whole stream, each executed once
and in order, however the reads were cut; every client is closed in the end.

### minishell (`bloque03/proyecto03`)

One process, its children, and a signal handler that may run between any two
steps of the loop. Signals of several children merge into one; handler and loop
compete for the same zombies. Correct: no zombie is forgotten, the prompt means
that the foreground has ended, and the prompt comes back.

### Programs that signals control (`bloque03`, ej34, ej35, e07)

The shield of ej34 blocks SIGINT while it loads, installs its handlers and waits in
`pause()`. The daemon of ej35 claims a pid file with O_EXCL, installs its handlers
and works until SIGTERM; SIGHUP asks it to reload. The counter of e07 prints how
often SIGUSR1 came. Signals arrive between any two steps, before the handlers are
there too, several daemons may be started, and any may be killed. Correct: one
daemon at a time is past its `open` and unlinks only its own file, a file without a
daemon means that one was killed, a reload is not forgotten, SIGTERM ends the
process. The last two have a gap each, which the properties name.

### Readers (`bloque08` to `bloque12`, `practica/resueltos`)

Some fifty sequential programs that read a file line by line (or word by word),
keep a table, a mask or some counters, and print one report at the end. They do
not interact with anything. The last of them are the commands of block 12, which
are MiniCloud without its processes: each reads the files of one or two services
and prints what is ready, admitted, planned or critical. What is hard is in their lines: an order nobody wrote
a file for, a repeated or missing key, a table that is full, a number at a limit
or beyond the width of its type, a failed line after good ones. Correct means that
the report is a function of the whole file, which can be said without the loop.

### The rest

The parts that are not modelled, with the reason for each, are the components
with status `not_modelled` in `PROJECT.json`; see
[Limits and what is not modelled](#limits-and-what-is-not-modelled).

## Modules

A module named `MC...` only gives the constants of the module it extends their
values; where a `.cfg` can give them all, the run uses the component's module
itself, and `Programs`, which only puts components side by side for a run, holds
the values of that run. The modules that only `Programs` instantiates have their
assumptions on the constants there. A definition whose comment calls it *a slip* is a plausible mistake in
the definition after it (a dropped guard, a missing wake-up, a swapped order);
no specification uses it. It is there to show that a property
notices when the mistake is made: `PROJECT.json` lists, for each property, the
slip that breaks it.

### MiniCloud

| module | stands for |
| --- | --- |
| `Capacity` | runner: capacity file, limits, verdict, booking (pure) |
| `Admission` | what the runner promises: a budget that is handed out and never exceeded, and forgotten as a whole |
| `Runner` | the runner as a process; implements `Admission` |
| `Tables` | registry and vault: file, table and lookup of each (pure) |
| `Registry`, `Vault` | the two processes |
| `Metrics`, `Monitor` | monitor: counting, severity (pure); the process |
| `Services` | any one of the four servers, or the table of minicache, by itself, for one run over all their inputs |
| `MiniCloud` | gateways and the four servers together: connections, queues of `listen`, answers in two sends, stops, restarts, kills, SIGPIPE |
| `LineCloud` | the processes of block 13, over the state of `MiniCloud`; the two stacks side by side |

In `MiniCloud`, `pc[f]` is the `http_request` a gateway is in and `conn[f]` the
state of its socket (`open` after connect, `sent`, `eof`, `reset`). `stage[s]` is
the place of server `s` in its accept loop. `Connect`, `Refused`, `Send` and
`Return` are the steps of `http_request`; `After...` are the branches of
`run_flow`; `Accept`, the four handlers, `SendHeader` and `SendBody` are
`run_server`. Paths and prefixes are sequences of symbols, so that a prefix may
end inside a segment, as `strncmp` allows; the text of a request is not
modelled, only which of the parser's outcomes it has (`complete`, a number in or
out of range). A request is one small send on the loopback interface and is
taken to arrive whole.

In `LineCloud` the variable `protocol` says which stack a behaviour is of. What the
two have in common (connect, accept, kill, restart, the tables, the booking) is
used from `MiniCloud`; what differs has its own actions (`Line...`): the branches
of `run_request`, the handlers, the single send, and what a gateway sees when its
server ends.

### Threads, caches and shell

| module | stands for |
| --- | --- |
| `RingBuffer` | the circular buffer (`head`, `tail`, `count`) that e06, e09, e10 and miniserver share |
| `Condition` | `pthread_cond_wait`, `signal` and `broadcast`: a signal wakes any one sleeper |
| `BoundedFifo` | what a queue promises: a bounded sequence, first in first out |
| `ClosingQueue` | e06; implements `BoundedFifo` |
| `ThreadPool`, `Pipeline` | e09, e10 |
| `StockRoom` | e05, and the kitchen of ej53 |
| `SharedCache`, `Limiter` | e07, e08 |
| `Counters` | e03, e04 and ej52 |
| `PollCache` | the cache under poll (block 06, e10), with the framing of lines of e06 and the commands of e07 |
| `FileCopy` | the copies of block 02: e01, e02, e03 (with system calls and with stdio), ej21 |
| `Walk` | the walks of block 02: e09, e10, the project's minifind |
| `Signals` | the programs that signals control: ej34, ej35, e07 of block 03 |
| `Programs` | the pipeline, the pool, the stock, the kitchen, the entry, the limiter, the counters, the cache under poll, a copy, a walk and a program under signals, each by itself, for one run |
| `MiniServer` | miniserver and its clients |
| `KVStore` | what the cache promises: a map of at most so many keys, and the answer to each command |
| `CacheTable` | `handler_parseo_db` and its array; implements `KVStore` |
| `MiniCache` | the event loop, the epoll and the clients; commands are only counted here |
| `MiniShell` | loop, `launch_process`, `execute_pipe`, `sigchld_handler`, the children, Ctrl-C |

A step of a thread is what it does between taking a mutex and giving it up
(`wait` gives it up): nothing else can see what is between. Waiting on a
condition is a value of `state`, and `Spurious` lets any wait end without a
signal. `MiniServer` and `MiniCache` model of the kernel what the programs
depend on: the lowest free descriptor, the queue
of `listen`, the list of epoll with its edges, and the reset that follows data
for a closed socket. `MiniShell` models fork (which may fail), `waitpid` with a
number, with -1 and with WNOHANG, one pending SIGCHLD however many children
ended, and which processes hold which end of a pipe.

In `FileCopy` the text of the file is a short sequence of distinct bytes, so that a
byte lost, doubled or out of place shows; `room` is what the disk has left,
`unseen` remembers that a failure came where the program does not look. In `Walk`
a path is the sequence of its names, `fs` the tree as it is and `first` the one
there was; `touched` remembers what others changed. In `Signals` the kernel keeps
each signal once (`pending`), a handler is one step, `enter` and `paused` are the two
sides of the call of `pause`, and `owed` remembers a reload that was asked for.

### Readers

| module | stands for |
| --- | --- |
| `Tally` | what the readers share: counters, fields of `strtok`, the loop of `fscanf`, conversions to `int` |
| `NetTools` | block 10: zones, mail exchangers, TLS policies, URLs, SMTP, exports, shares, proxy routes, health |
| `KernelTools` | block 11: modules, namespaces, control groups, seccomp profiles, kernel settings, containers |
| `CloudTools` | block 12: contracts, snapshots, route plans, health, metrics, secrets, jobs, events, policies; the five commands of its project |
| `HostTools` | blocks 08 and 09: tables of mounts, ACLs, volumes, quotas; capabilities, hash and HMAC buffers, products, paths, tokens, records |
| `Tools` | all of them as one machine: some reader, some file, one line in each step |

Each reader is three operators: `...Start`, what it remembers before the first
line; `...Step`, what one line does to that; `...Matches`, its report said once
more from all the lines at once. A line is given by its parts as the program
splits it, a parsed number as a set with the number, `{}` for a text that is
none. The compression of SHA-256 is left out: the hash reader is about the buffer,
the padding and the length, and HMAC about what is hashed and in which order.

## Runs

All properties listed here hold unless the run is said to show a violation.
State counts are TLC's distinct states.

| run | instance | states | question |
| --- | --- | --- | --- |
| `services` | each server, its files and requests at and beside every limit; minicache's table with 3 entries, 4 keys, 2 values | 41,800 | does each server by itself do what its file and its clients say? is the array a bounded map? |
| `stack` | both stacks, three gateways, one of which may be killed, one stop | 1.6 million | do what is printed, booked and counted agree? |
| `stack_live` | both stacks, two gateways, queue of one, one kill, one stop | 82,128 | does every gateway end? |
| `closing_queue` | 2 producers, 3 consumers, 3 values each, 2 slots | 2,878 | is the queue a FIFO, does nobody sleep beside work? |
| `programs` | each of the programs of `Programs` | 93,037 | does what `main` checks at its end hold, and does it get there? |
| `miniserver` | 2 workers, 1 slot, 3 descriptors, 3 clients | 29,430 | one owner for each descriptor, an answer for each client? |
| `minicache` | 2 clients, 2 descriptors, lists of 2 events | 37,821 | is no edge lost, and is whoever waits answered? |
| `minishell` | 5 children, 1 Ctrl-C, forks that fail | 341,232 | are zombies reaped, is the prompt honest, does it return? |
| `tools` | 46 readers, files of up to some lines each | 1.5 million | is every report what the whole file says? |
| `minicache_up` | as `minicache`, a wider window | | violation: see below |
| `minishell_ctrlc` | 4 children, 1 Ctrl-C | | violation: see below |
| `tools_missing` | as `tools` | | violation: see below |

**Bounds and why they are enough.** Each bound is a constant with its meaning
beside its declaration.

- `services`: the accepted requests of `MCRunRequests` exhaust CPU exactly,
  memory exactly or the number of jobs, and the others miss each limit by one.
  Three requests are enough for two bookings and the first rejection.
  Ten events meet both thresholds of the severity exactly (1 of 10, 3 of 10).
  Files are as long as the table plus one line, so the table overflows.
- `stack`: two jobs of which only one fits is the smallest competition; the third
  flow is one that never reaches vault and runner. One stop can come in any step
  of any server. A queue of two holds both other gateways; a queue of one
  (`stack_live`) makes a gateway wait in `connect`.
- `programs`: nine items through two queues of three slots, four tasks for three
  workers, five items for a shelf of two, two readers of one turn and two writers of two,
  four threads for two permits, three diners for four dishes, three threads that
  add twice (so that a barrier is used again while a thread still sleeps in it).
  A copy has three bytes and a buffer for two, so that every loop goes round; the
  disk has room for fewer, as many and more; two calls are interrupted and one
  fails. The trees have a directory that may not be read, one that is too deep for
  two descriptors, a link, names that others remove, add and turn from file into
  directory, twice. The clients of the cache have streams that share
  keys, fill the table, and have lines that are empty, at a limit, beyond it or
  never ended; reads take one to three words. Two daemons and three signals: enough for
  two starts at once, a file left behind and a third signal after a lost one; the
  shield gives in at the second SIGINT instead of the third.
- `tools`: for each reader a few lines beside every limit, the broken ones and those
  that repeat a key, in every order, as many as its table overflows with. Tables and
  types are scaled: an `int` of 8 bits, a `size_t` up to 15, blocks of 6 bytes
  with a length of 2, tables of 2.
- queues: the indices go round more than once, all threads of one kind can
  sleep at the same time, and there are more consumers than slots.
- `miniserver`: three clients for two workers and one slot fill the queue, and one
  of them is silent and keeps a worker.
- `minicache`: more commands than the window of unread answers, lists cut
  so that an event waits while its neighbour closes a descriptor.
- `minishell`: two lines of any kind beside a background job, so that two
  children end under one signal and one of them is waited for by the loop.

**Fairness.** Weak fairness of each step of a running process or thread: the
scheduler runs what is ready, and a blocking call that can return does. Nothing
makes a server stop or start again, a gateway or client die, a wait end without a
signal, or a client send. Of clients only this is assumed: a patient client of
`minicache` reads an answer that has arrived. In `minishell` a foreground
program ends, the reader of a pipe ends at its end of file, the writer when it
has been read or has no reader (`Ends`); a background job may run for ever.
Mutexes need no fairness of their own, since no step holds one at its end. In
`programs` each thread passes a semaphore or a read-write lock a bounded number of
times, so weak fairness of each thread is enough; so it is for the mutex of the
counters, which each thread takes once in each turn. A copy and a walk are one
process each and keep running; interruptions are finitely many, and so are the
changes that others make to a tree. A process under signals goes on and gets what it
does not block; nobody has to send anything. `services` and `tools` have
no liveness: a reader ends with its file.

**What each property is about.**

- `AcceptMeansBooked`, `FailureHoldsNothing`: no stop of a server between
  booking and answer, between header and body, or of the gateway, makes the
  printed status lie about the booking.
- `CapacityConserved`: free plus remembered bookings is the file's capacity, over
  restarts. A killed gateway keeps its booking: nothing in the code gives it back.
- `MonitorMatchesFlows`, `ExitMeansCounted`: report and printed lines agree; the
  second is what `tests/test_stack.sh` needs to read `total=1`.
- `RefusalsAreTheServers`: while no server has stopped, whoever is told `REJECT`
  was counted by the runner, and a route or secret that is said to be
  missing is missing: an empty answer, which passes for a refusal, needs a server
  that stopped.
- `FirstComeFirstServed`, `BudgetSpec`: a verdict depends only on the jobs
  accepted before it; the runner is a budget.
- `AnswersMatchFiles`: the answers of registry and vault, read off the file itself
  rather than off the table, by a definition that has no loop.
- `MonitorMatchesEvents`, `SeverityIsMonotone`, `ReportSane`: the report as
  a function of what was sent, the thresholds, and that a success never worsens it.
- `NoLostWakeup`, `NoLostServerWakeup`: one signal for each push and each pop is
  enough; a signal never goes to the only thread that cannot use it. `LeavesLast`,
  `AllJoined`, `ProgramsEnd`: the shutdowns.
- `ChecksSucceed`, `StreamInOrder`: the checks that the programs' `main` makes, and
  the reason that they succeed: no task lost between the two locks of the pool
  (`TotalsAtJoin`), the stock balanced at every step (`StockIsRight`), no half of
  a write read (`ReadsAreWhole`), the permits respected (`LimitIsKept`), no dish left
  or eaten twice (`KitchenIsRight`), the counter what its locking promises
  (`CounterIsRight`), the cache's answers those of the lines of the whole stream
  (`AnswersInOrder`), the copy whole where success is reported (`CopyIsHonest`),
  the walk complete for what nobody touched (`WalkIsHonest`), one daemon for the pid
  file and no reload forgotten (`SignalsAreKept`). `StopIsKept`, in `ProgramsEnd`, is
  what SIGTERM brings about.
- `NetReportsMatch`, `KernelReportsMatch`, `CloudReportsMatch`, `HostReportsMatch`:
  the report of every reader, wherever its file ends.
- `OneOwner`, `AnswersFit`, `EveryClientEnds`: see miniserver above. The last one
  only with fewer silent clients than workers: `read` has no timeout.
- `OneSlotPerKey`, `KVSpec`, `NoDataForgotten`, `EventsAreFresh`,
  `PatientAreAnswered`: see minicache above. A client that sends without waiting
  may have its second command dropped (the parser takes one line of each read),
  so the last one is about clients that wait.
- `NoZombieForgotten`, `PromptMeansDone`, `PromptReturns`: see minishell above.
  The last one is for lines whose forks succeed.

## Proofs

The theorems hold for every value of the constants that meets the named
assumptions: any number of gateways, threads, slots, keys, processes, any file.
Each is the usual argument: an invariant that holds initially, is kept by every
action (one step of the proof for each), and implies the property.

| module | results |
| --- | --- |
| `Capacity` (its lemmas) | loading gives numbers in range; booking keeps them so; what an accepted request guarantees; the least element of a set of numbers; sums over finite sets |
| `ServiceProofs` | runner: `RunnerTypeCorrect`, `RunnerImplementsBudget`, `RunnerIsFair`; monitor: `MonitorReportSane`, `MonitorSeverityMonotone`, `MonitorIsTrue`; registry and vault: `AnswersAreTheFiles`; table of minicache: `NoKeyTwice`, `TableImplementsMap`; its loop: `LoopInvariant`, `EdgesAreKept`, `EventsReachTheirs` |
| `MiniCloudProofs` | both stacks: `MiniCloudTypeCorrect`, `MiniCloudInvariant`, `AcceptIsBooked`, `FailureIsFree`, `MonitorInvariant`, `ExitIsCounted`, `MonitorIsRight`, `RefusalsAreTrue`, `LedgerIsKept`, `CapacityIsConserved` |
| `RingBuffer` (its lemmas) | what `Push` and `Pop` do to the contents of a circular buffer of any length, wherever its indices are |
| `ProcessProofs` | closing queue: `QueueTypeCorrect`, `WakeUpsAreNotLost`, `ConsumersLeaveLast`, `QueueImplementsFifo`; minishell: `ShellTypeCorrect`, `ZombiesAreReaped`, `PromptIsHonest`; miniserver: `ServerInvariant`, `ServerTypeCorrect`, `DescriptorsHaveOneOwner`, `WorkersAreWoken`, `AnswersAreTheirs` |
| `ToolProofs` | of the readers of blocks 10 and 11: `NetReportsAreRight`, `KernelReportsAreRight` |
| `CloudProofs` | of the readers of block 12: `CloudReportsAreRight` |
| `ProgramProofs` | of the programs of `Programs`: `PipelineKeepsOrder`, `LimiterKeepsItsLimit`, `EntryReadsAreWhole`, `CountersAreRight`, `StockStaysRight`, `KitchenStaysRight`, `PoolTotalsAreRight`, `CopiesAreHonest`, `WalksAreHonest`, `SignalsAreKeptAlways`, `CacheAnswersInOrder`, and all the checks together: `ChecksAlwaysSucceed` |

**MiniCloud.** `AcceptMeansBooked` says nothing of an answer on its way, so it is
not inductive. `IInv` follows the evidence: a server that works has the connection
of a flow that waits for it or was killed (`ServedInv`), the same for queues
(`QueuedInv`), a flow prints nothing before its end (`SilentInv`), the code a
flow has read is the one its server sent and is read again only if the connection
did not fail (`CodeInv`), a 200 of the runner is a booking wherever it is
(`EvidenceInv`), and a live booking has been printed, is on its way, or belongs to
a killed gateway (`LiveInv`). TLC checks `IInv` in the run `stack`. The theorems are
about `StackSpec`, so they hold of both stacks; the lemmas about steps that the
stacks share are proved once.

The counters of the monitor need a second invariant, `CInv`, on top of the first:
while no server has stopped, no call fails and the monitor's answer comes after its
handler (`HeardInv`); a connection that waits for the monitor, or that it has just
accepted, is of a flow it has not counted (`OnceInv`); and the two counters are the
cardinalities of the flows heard and of those among them that failed
(`CountsInv`). `StackCases` first reduces the steps of both stacks to the few
that matter for it. An event that the HTTP monitor refuses is one that no gateway
sends (`LatencyIsUnderstood`).

A third one, `DInv`, gives `RefusalsAreTrue`: while no server has stopped, every
call ends with the answer of its server (`AnsweredInv`), the flows refused, whether
they have been told or the refusal is on its way, are at most as many as the
runner has counted (`RefusalsInv`), and whoever was told that something is missing
asked for something missing (`MissingInv`).

The ledger of the runner is a sum over the bookings that live. `LedgerInv` says that
its memory is what the file offers less that sum, and `BookedOnceInv` that what waits
for the runner, or has its request read, is there once and not booked yet, so that a
booking adds one new member to the sum; a runner that stops forgets all of them and
starts again from the file. `CapacityIsConserved` follows.

**Sums and recursion.** No induction theorem of the library can be used here, since
its parameter is an operator. Two detours replace it. `Total(h, S)` counts the pairs
of a member of S and a unit of its share: it is a cardinality, and what happens to it
when a share or the set changes follows from the theorems about finite sets;
`SumIsTotal` shows that a function with the recursion of a sum is this count. And a
claim about all numbers, or about a recursive function up to a bound, is proved from
its least counterexample (`Least`), the existence of the function included
(`PassExists`).

**Runner and monitor.** `Served` ties the runner's memory to its log: what is left is
the file's capacity less the total of the accepted requests, so a request was
accepted exactly if it fits beside those before it. `Tallied` gives each counter of
the monitor as a total over the kinds of events that came.

**Registry and vault.** Where a table's entries come from is a function into the lines
of the file. After n lines the table has the first well-formed ones, in their order
and no more than it has room for (`Lists`, `Filled`). The loop of `resolve_route` is a
fold over the entries; for every set of them it is at the entry with the longest
prefix, the last of those (`Found`, `Chosen`), and what is read off the file by the
same rule is that entry's line.

**Closing queue.** The ring holds what entered and has not left (`RingInv`), the
producers counted alive are those that have not ended (`AliveInv`), a consumer
that left saw no producer alive and an empty queue (`LeaveInv`), and what has been
taken, waits or is still to be produced are all the values there are (`CountInv`),
from which the last conjunct of `LeavesLast` follows. The two wake-up
invariants (`ConsumerAwake`, `ProducerAwake`) say that while a thread sleeps, no
more work waits than there are threads on their way to it; each action changes
both sides by the same amount or wakes a thread.

**miniserver.** `OneOwner` counts the owners of a descriptor; the invariant says it
without counting: what main holds, what stands in the line and what a worker holds
is open and nobody else's (`MainInv`, `QueuedInv`, `HeldInv`), and what is open is
held by someone (`OwnedInv`). The lemmas of `RingBuffer` turn the ring into that line (`QueueLineInv`):
what goes in is its last, what a worker takes its first. `accept` takes the lowest
free number, which exists because numbers are well-founded (`MinIsFree`) and which
nobody owns because it is closed. With exclusive owners, a worker that is to write
a body writes it to the client it has read from (`BodyInv`), so an answer without
its body has a worker that owes it (`AnswersFit`). `NoLostServerWakeup` is inductive once
a sleeping worker is known to be before its `take` (`HandsInv`): a push wakes one
more worker, a take removes one of each. The workers are finitely many; nothing is
assumed of the clients.

**Cache.** `OneSlotPerKey` makes taken entries and stored keys a bijection, so
that a free entry exists exactly when the map is not full: `ERROR_OOM` is what the
abstract map answers too.

**Loop of minicache.** `NoDataForgotten` is not inductive: a descriptor that is
given out again might find an old event of its number in a list. `MInv` adds that
an event, queued or returned, is of the connection that is behind its descriptor
now (`FreshInv`), no list has a descriptor twice, and a client is in the backlog
once, behind one descriptor, or has not come (`PlaceInv`): a client that rings,
rings for one descriptor, a descriptor that is closed takes its events with it,
and a free one has none. `LineInv` counts each line once (waiting, being
answered, answered, read, or dropped), which bounds the counters of the type
invariant. The lemmas about lists say what `Append`, `Tail`, a cut and
`RemoveAt` do to the set of events and to their being one for a descriptor.

**Shell.** A zombie makes SIGCHLD pending, and a handler that has started runs
until it finds none. The second invariant says, for each place of the loop, which
live foreground processes may exist: those still to be waited for. `waitpid(-1)`,
which a failed fork leads to, needs a case of its own: it may take another child,
and returns without one only when there is none.

**Programs.** The theorems are about `ProgramsSpec`, whose initial state chooses a
program; each shows that the steps of the others leave its variables alone.
`PipelineKeepsOrder` and `ChecksAlwaysSucceed` state the properties that the run
checks; the latter is the conjunction of the theorems for the other programs.

- Pipeline: how many values stage2 and stage1 have taken and stage1 has sent on are
  numbers that the variables determine (`Taken2`, `Sent1`, `Taken1`), and the n-th
  value of a queue is the value of the feed at that position (`StreamInv`). A stage
  has stopped only behind the sentinel (`StopInv`).
- Limiter: what is inside, and what is counted, are the cardinalities of the sets
  of threads at those places of the route; one thread moves at a step.
- Entry: a writer is alone inside the lock and readers are only with readers
  (`LockInv`), so the two fields agree except between a writer's two assignments
  (`WholeInv`) and what a reader has copied agrees with itself (`SeenInv`). The
  totals are sums over threads; they are counted instead as the cardinality of the
  set of pairs of a thread and a turn that it has made (`TurnsInv`).
- Counters: with barriers all threads are either between the end of a turn and the
  opening of the first barrier or between the two openings (`Reading`, `Writing`);
  under the mutex what is stored is fresh (`MutexInv`); with nothing the counter is
  never ahead of the turns made, and a thread in its second turn stores at least
  two (`BareInv`).
- Stock and kitchen: the producer stops behind its last item and the consumer only
  at an empty shelf; a diner sleeps only while a dish is still to come.
- Pool: each task that was taken is in one hand at most, or done (`TaskInv`); the
  totals are the number of the done ones and the sum of their squares (`TotalInv`),
  squares of different tasks being different; a worker ends at an empty queue after
  the stop (`PoolEndInv`), so at the join all tasks are done.
- Copies: what was written and what is held are the source up to the place of the
  next read (`Carried`), whatever was cut short or interrupted.
- Walks: the open directories are those above the path where the walk is, and none
  gives a name again (`PlaceInv`); a path that nobody touches is as it was, has been
  printed at most once, and is still to come or left behind: `Ahead` says which, and
  what is behind was printed if it matches and was opened if it can be (`PathInv`);
  an error has a reason in the tree (`ErrorInv`). Printing once is claimed of
  untouched paths only: the model lets the stream of a directory that was replaced
  while open tell of what is put into its successor, and so list a name again.
- Cache under poll: a pass has come to a place of the client's whole stream
  (`PassAt`): the part of a line that it holds starts behind a newline, as many lines
  are handled as newlines have been passed, and the table is the map that the lines
  handled so far have left (`TableFits`), each key in one entry, so that a free entry
  exists exactly if the map is not full. Between passes the same is known of every
  client (`ServedAt`), together with what the reads found: all but the last are
  `ReadMax` words long, so a read that finds too much of a line is one that the
  stream alone determines (`NoFlood`), whichever client the loop serves first.
- Signals: the file names the only daemon that is past its `open`, or is empty while
  that daemon writes it, and only an owner that dies leaves it behind (`PidFileInv`);
  no reset is due while a reload is asked for (`ReloadInv`); what is pending or was
  handled was sent, and a pending SIGINT is not counted yet (`SentInv`).

The assumptions on the constants of these programs are that the sets of threads are
finite, that there is an adder, a diner and a worker, a permit, a place on the shelf
and in the queue of the pool, that buffers and limits of the cache are positive, and
that no daemon is called as an empty or missing file is: the numbers
are positive constants in the code. What is read is well formed as data: streams are
sequences of words, a file of bytes, a tree has its base and the directories
above each path, a newcomer is not put in the place of the base; the files of routes
and secrets are sequences of records, and "none", which stands for no answer, is no
path and no name. The kinds of events are finitely many, as their fields have a
fixed size in the code.

**Readers.** A report speaks of the whole file and a step of one line, so no report
is inductive. The invariant of a reader (`NetInv`, `KernelInv`, `CloudInv`) ties what it
remembers to the lines read so far: a counter is the number of the lines of its kind (`Nr`), a setting
is the last line of its key (`Latest`), the largest row is the first of those that no
row exceeds (`IsTop`), the table of ids is injective and complete until it is full
(`PidNsInv`), the edges of `/proc/modules` are the places of the lines where a name
begins (`DepEdges`). Each of these has a lemma on what one more line does to it. A
loop over the words of one line is a fold: `FoldRuns` says that whatever satisfies
the equation of `FoldLeft` runs through the states of the loop one by one, which is
how `CountDeps` is seen to count names, `StripComment` to end at the first semicolon
outside of quotes (`StripTells`) and `MatchRoute` to find the first of the longest
routes (`MatchRouteFinds`).

Those of block 10 need more than counters. The dialogue of SMTP is a grammar: each
state of the reader says which shape the lines read so far have (`Greeted`, `Headed`,
`Begun`, `Accepted`), and an invalid dialogue has no shape that a longer one could
complete. A share of `smb.conf` is counted only when the next section begins, so the
counters are those of the shares that are closed, and what is remembered of the open
one is what its lines say (`SmbInv`); the last share is counted by the flush at the end
of the file. The tables of the proxy are the backends and the routes of the file in its
order (`Picked`), and the parse has failed exactly when one of them would not fit.

Those of block 12 add three shapes. A reader that sorts lines has a table of the
counters a line counts for, and one lemma (`CountersKeep`) for all of them; fields are
what is left of the pieces when the empty ones are dropped (`FieldsPicked`,
`FieldsTell`). The plan and the router drop a line when their table is full and go on,
so their tables are the first lines of each kind and no more (`TableInv`). A loop of
`fscanf` takes words in groups of three or five, from the whole file: `ScanRuns`,
`ScanEnded` and `ScanTook` say where the scan is in the list of words, so that the groups
taken are those up to the first word that is no number where one is wanted
(`GroupsTell`). `observed` reads two files this way, and `ObservedInv` says that each
scan has read its own words however the lines of the two come. Sums are about the places
of the lines, not the lines, as two lines may be the same; `TotalOverIs` says that
`TotalOver` has the value that adding one by one gives.

The proof found an error in a definition: `ContractMatches` counted a valid line as
`https` when any of its fields was that text, a service of the name `https` included,
where the code compares the third field. No line that TLC tried had such a name; one has
it now, and the definition is about the third field.

What is assumed of the lines (`LinesAssumption`) is what the parser or the kernel
makes of any of them: numbers are numbers and at most one is parsed from a text, the
list of dependencies has the sign `-` for none alone, no action of a profile has
the name of a system call, a client of an export is a set of options, a piece of a URL
has a kind and a number, only a route has the length of its prefix, a piece or a word has
a text, at most one number and a name that is good or not. A reader that takes a
command line or one file at once takes one line. Of the constants: tables have a size
(`NetAssumption`), a `uint32_t` has the bits of the flags of `clone`, and the limits of a
job are numbers and an `int` holds more than the 120 of the policy (`CloudAssumption`).

**Only model-checked.** Liveness, and the reports of blocks 08 and 09
(`HostReportsMatch`). Its HMAC reader is the exclusive or of bytes, a sum of powers of
two over a set of bits, and its hash reader flattens blocks of bytes: both are
induction over data with exponents, which the backends do not have.

## What the models say about the code

Three differences between the code and what its documents say have a run that
shows them:

- `minicache_up`: the second answer written to a client that has closed
  raises SIGPIPE, which nothing ignores, and the server ends; the project's
  README says that it survives consoles closed rudely.
- `minishell_ctrlc`: the children of a pipe keep SIGINT ignored as they inherit
  it, so Ctrl-C does not end them; the README says that foreground children die.
- `tools_missing`: the audit of the kernel (block 11, e09) counts a required key
  that is missing twice, once as not passed and once subtracted from `pass`: one
  missing key is CRIT, where its comment makes it one failure like a failing key.

Others follow from the models as well and are part of them:

- miniserver ends by SIGPIPE when a client leaves between the two writes of its
  answer (`SigPipe`); its README asks for an immortal server.
- minicache spins in its accept loop when descriptors run out (`Accept` with no
  free descriptor): nobody is served and none can be closed.
- minishell waits for a pipe that ends in `&`; and when a fork of a pipe fails,
  `waitpid(-1)` may wait for a background job.
- MiniCloud never gives capacity back while the runner runs: `max_parallel_jobs`
  bounds the jobs accepted since its start, not those that run together. The
  same job id may be booked twice.
- Over lines, a gateway whose vault or registry stops before it answers may report
  that the secret or the route is missing (`SECRET_UNAVAILABLE`,
  `ROUTE_NOT_FOUND`), one whose runner stops may report `REJECT`: the three statuses
  do not tell a refusal from a server that is gone (`RefusalsAreTheServers` says
  when they do).
- e02 and both copies of e03 report success although the close, where a disk may
  first say that it is full, failed (`unseen`); e03 and ej21 take an interrupted
  call for a failed one. A copy of a file onto itself empties it and reports
  success.
- minifind of block 02's project says on stderr what it could not read and exits
  with 0; e10, the exercise, exits with 1.
- ej34 unblocks SIGINT before it installs the handler, so a Ctrl-C during the load,
  which its comment says is kept until then, ends it at once (`Unblock`). A SIGTERM
  between the test of `flag_run` and `pause()` leaves it asleep with the flag set,
  until another signal comes (`Deaf`); its comment (line 55) wants SIGTERM always to
  force a sound shutdown.
- ej35 leaves its pid file when a signal arrives before its handlers, and no daemon
  can start until somebody removes it. A SIGHUP between the log of the reload and
  the reset of `g_reload` is forgotten (`owed` is then "late").
- The bell that main of the kitchen rings after joining the cook (ej53, lines 112
  to 118) wakes nobody: with the last dish every diner already sees a dish or the
  end (`KitchenIsRight`).
- The README of miniserver speaks of five workers and a broadcast; the code has
  four and a signal, which `NoLostServerWakeup` shows to be enough.
- Readers of the same kind differ: a loop of `fscanf` stops at its first malformed
  word, the quota report (block 08, e08) skips the line; the health report of block
  10 takes an empty status for CRIT, that of block 12 skips it; a full table of
  proxy routes fails the parse, a full route plan ignores the line.
- The policy auditor (block 12, e09) converts a `long` to `int` without a check of
  its range: a large number wraps into an acceptable one.
- The seccomp linter (block 11, e06) wants its first rule to refuse a profile that
  allows by default (comment at `main.c:74`), but looks for `SCMP_ACT_ERRNO` anywhere
  in the file: a profile with `SCMP_ACT_ALLOW` by default and one rule with
  `SCMP_ACT_ERRNO` is "secure", and `ptrace`, which no rule names, is allowed.
  Rules 2 and 3 do not look at the action either: a required call that is refused
  counts as present, a dangerous one that is refused counts as dangerous.
  `SeccompMatches` says what the report is sure of: the default action decides the
  dangerous calls of a secure profile, and denies them when no rule has
  `SCMP_ACT_ERRNO`. The run `tools` visits these profiles, and `KernelReportsAreRight`
  proves it for every profile.

## Limits and what is not modelled

Left out of the modelled parts: the text of requests and answers, logging, the
parsing of options, partial reads and writes of the short messages of MiniCloud,
the output that a failed `exec` may flush twice, jobs that no program of the
repository sends (a client that connects and stays silent would hold a
MiniCloud server; in miniserver such clients are modelled). Of MiniCloud over
lines, the mode `--client`, in which a person types a request, and with it the
events whose service is a retry, and latencies beyond the limit that only the
HTTP monitor has. Of the walks, memory that runs out, paths of more than 4095
bytes, and a directory that is replaced by a link after its `lstat`.

Not modelled, each for want of anything that a model would add:

- the dynamic array and the pool allocator (`bloque04`): calls in a straight line
  with constant sizes, far from any overflow;
- shared memory between parent and child (`bloque04`): the parent reads after
  `waitpid`, nothing happens at the same time;
- the reactor and the writer that meets a full socket (`bloque06`, e08, e09): one
  thread that holds both ends and uses them in a fixed order;
- the legacy echo servers (`bloque06`, ej61 to ej63), of which the one under epoll is
  the loop of minicache without commands, and the legacy lock and semaphore
  (`bloque05`, ej54, ej55), which are e07 and e08 with less to check;
- the single uses of fork, exec, pipes and signals of block 03, which minishell
  combines;
- the options, strings, lists and clean-ups of blocks 00, 01 and 07.

Of blocks 08 and 09 the exercises that only wrap a system call (statvfs, extended
attributes, inotify, the drop plan) are left out: they have no state of their own.
The exercises of block 07, the skeletons of the complex exercises, which only print
their names, the lessons and the containers have none either.
