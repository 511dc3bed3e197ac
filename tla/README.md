# Oxy-C in TLA+

Oxy-C is four C programs: a **bakery** simulated with threads, S.H.A.M., a
reliable **file transfer** over UDP, a **shell** with job control, and C-Shark, a
**packet sniffer** on libpcap. They share no code and no state. This directory
holds TLA+ models of them, TLC configurations for small instances, and proofs
checked by TLAPS. Paths below are relative to `src/`.

## 1. Inventory

### Bakery (`bakery/`)

| part | state | operations |
|---|---|---|
| `main` (main.c) | the arrival in hand, `current_customers`, `shutdown_flag` | refuse, admit and start a customer thread, join all, shut down |
| customer threads (threads.c:75-198) | label, its `Customer` (four semaphores), its place in the queues | look for a seat, stand, sit, be served, order, pay, leave, wake the others |
| chef threads (threads.c:7-72) | label, the customer worked on | wait for work, take a payment, serve and bake, stop at the shutdown |
| queues (queue.c) | `sofa`, `standing`, `payment`: linked lists with a size | `q_push`, `q_pop` |
| clock and log (utils.c) | none | formatting |

They interact through shared memory: the mutexes `lock` and `payment_mutex`, the
condition variables `chef_cv` and `standing_cv` and the semaphores.
*Hard:* the test for a seat without the lock (threads.c:94-99), the push on the
standing queue and the wait on `standing_cv` without holding the lock (117-121),
wakeups, the double unlock at the shutdown (19, 69), pointers used outside the
lock. *Correct* when nobody is served, paid or let in out of turn or twice, the
counters count, and everybody leaves.

### File transfer (`networking/`)

| part | state | operations |
|---|---|---|
| client (client.c) | `inflight[]`, `in_flight_bytes`, `remote_win`, the input file, `got_ack`/`got_fin` | handshake, name, fill the window, poll, retransmit, close |
| server (server.c) | `expected`, `bufs[]`, the output file | handshake, name, write or buffer a chunk, acknowledge, close |
| chat mode (client.c:184-281, server.c:155-298) | stdio's buffer of the terminal, the set select returned | a turn of the loop: a line typed, a packet received; `/quit` or end of input, and the exchange of FINs |
| log, MD5 (utils.c, server.c) | none | formatting, reading the file |

They interact by datagrams, which may be lost, duplicated or reordered
(`should_drop` adds losses). *Hard:* the window against reordered acknowledgements,
the reordering buffer, timers racing answers, both ends of the connection; in the
chat, receives that block and take any packet for the one they expect, and two
`/quit` that cross. *Correct* when the received file is the one sent, lines
arrive once and in order, and both programs end.

### Shell (`shell/`)

| part | state | operations |
|---|---|---|
| history (log.c, part of shell.c and util.c) | the ring `logs[]`, `logs.txt` | add a line, save, load, purge, replay |
| jobs and signals (bg.c, util.c, signal.c, shell.c, pipe.c) | `jobs[]`, `next_job_id`, `fg_pid`, the dispositions of SIGINT and SIGTSTP | start, `check_jobs`, `fg`, `bg`, `ping`, `activities`, keys, end of input |
| dispatch (shell.c, parse.c, token.c, sequential.c) | the groups of a line | which command runs, where |
| pipes and redirections (pipe.c, atomic.c) | descriptors | connect programs and files |
| hop, reveal (hop.c, reveal.c) | the current and last directory | change and list directories |
| display (display.c) | none | print the prompt |

They interact through globals; the processes through signals, statuses and pipes.
*Hard:* a status taken by the wrong wait, signals between any two system calls,
EINTR, an uninitialized index, the file and the ring out of step, a crash in
the middle of a save; loops over the groups of a line that share no code; write
ends of pipes inherited by every child; what `hop` and `reveal` remember. *Correct* when the job table tells the state of the
processes, the prompt comes back, every command runs once, in its turn and with
its input, and the history is what was typed.

### C-Shark (`cshark/`)

| part | state | operations |
|---|---|---|
| capture session (capture.c, cshark.c, menu.c, utils.c) | `g_handle`, `g_capturing`, `g_packet_count`, the store of 10000 packets | choose a device, capture with or without a filter, SIGINT, inspect |
| decoders (L3.c, L4.c, inspect.c) | none | show the layers of a packet, as it arrives and again from the store |
| printing (print.c) | none | hex dumps and addresses |

They interact through globals; the handler of SIGINT runs between any two
statements. *Hard:* SIGINT at any point of a session; the
full store; what one session leaves to the next; two decoders for one packet.
*Correct* when Ctrl-C ends a capture and nothing else, and the inspector shows
what was captured.

## 2. Modules

| module | stands for |
|---|---|
| `Bakery` | all bakery threads and the queues, at the grain of loads and stores |
| `BakeryService` | what the bakery promises: three FIFO lines, no threads |
| `BakeryRefinement` | the mapping from `Bakery` to `BakeryService`, for a shop in which nobody stands |
| `BakeryProofs` | theorems about `Bakery`: types and mutual exclusion; cakes, customers and seats; the queues as lists, and that `Bakery` implements `BakeryService` |
| `ShamTransfer` | client, server and network of the file transfer |
| `FileDelivery` | what a transfer promises: a growing prefix, complete when done |
| `ShamChat` | the two chat loops, their terminals and sockets |
| `ShamTransferProofs`, `ShamChatProofs` | theorems about the two |
| `ShellLog` | history, `logs.txt`, replay, crash and restart; the directory commands in between |
| `ShellHop` | `hop` and the paths of `reveal`, as operators |
| `BoundedHistory` | what a history promises |
| `ShellJobs` | job table, waits, signals, against the kernel's view of the processes |
| `ShellParse` | the parser as operators, and a grammar to compare it with: what may follow what |
| `ShellDispatch` | which groups of a line run where, in `main`, in background children and in replays |
| `ShellPipes` | a pipeline: descriptors, forks, writers of input files, output files |
| `ShellLogProofs`, `ShellJobsProofs`, `ShellPipesProofs` | theorems about the three |
| `ShellDispatchProofs` | theorems about `ShellParse` and `ShellDispatch` |
| `CSharkSession` | the menus, both captures and the inspector against SIGINT |
| `CSharkDecode` | the two decoders as operators |
| `CSharkProofs` | theorems about `CSharkSession` and the decoders |
| `MC...` | instances for TLC, and the refinements of `FileDelivery` and `BoundedHistory` |

How to read them:

* **Bakery.** `pc[t]` is a place in the C function of thread `t`; `Jumps`, `Sets`,
  `Links`, `Signals`, `Unlocks` are the kinds of steps. A step ends where another thread may
  notice. Because customers work on `standing_queue` without the lock, `x++` is a
  load and a store, and `q_push`/`q_pop` are cut between their stores. Two places are not:
  `head = tail = c` with the load of `size` behind it (queue.c:8), and the stores of `tail` and `next` with
  that load at the end of `q_pop` (queue.c:16-18).
  `pthread_cond_wait` releases the mutex whoever holds it (a default mutex of
  glibc does not check), which `stolen` records; `OwnerAssertion` is glibc's
  assertion on a mutex that is found owned; `SpuriousWakeup` is what POSIX allows.
  Freed customers, NULL and failed assertions end in `process = "crashed"`.
* **ShamTransfer.** Sequence numbers are offsets from the initial one, so the name has
  number 1 and chunks follow. `fill`/`poll` alternate over the entries of
  `inflight[]`; timers are choices. `c2s` and `s2c` are the two socket buffers;
  `Network` loses, duplicates or swaps packets. `should_drop` is a loss.
* **ShellLog.** A line is a sequence of commands; `phase` is where `main` is. `End`
  is a kill between any two lines written to `logs.txt`, `CutShort` one in the middle of a line: stdio
  writes its buffer in blocks (log.c:46-53), so that the file may end in a torn line, which the next session
  takes for an entry (shell.c:58). `Beginnings` gives for each line what its beginnings read as.
* **ShellJobs.** `proc` and `report` are the kernel's state of a child and its
  unread status; `shell` is where `main` or `do_fg` is. `signal()` is
  that of the flags of `shell/Makefile` (strict POSIX: one-shot handlers, EINTR).
  The history variable `spoiled` records the five ways the table stops
  telling the truth: a status taken by a pipeline ("theft"), the uninitialized
  index of `fg` ("index") or status ("status"), Ctrl-Z after the program ended
  ("late") or before `fg` took over ("twice"). Once a one-shot handler has run, the key has its default
  action: Ctrl-C kills the shell (`CtrlCKills`) and Ctrl-Z stops it (`CtrlZSuspends`). A stopped shell
  is left there: who continues it is outside of the model.

* **ShamChat.** Each side has a script, of which stdio has fetched some lines and `fgets` taken
  some (`fetched`, `taken`); `ready` is what the last `select` said of the socket. `at` is
  the place in the loop: a blocking receive is a place that only a packet leaves.
  After a `break` the server is at "name" and "data", the receiver of a file. The sockets are
  those of the file transfer: `Network` loses packets (`Lose`), and brings them twice or lets one overtake
  another (`Delay`); `lost` and `late` count what it did.
* **ShellLog, with ShellHop.** `place` holds the directory of the process and the
  four strings `hop` and `reveal` keep; paths are sequences of names, and `Leads` is the
  kernel's walk along one. `inner` counts what is left of a replayed line in `todo`.
* **ShellParse, ShellDispatch.** A line is a sequence of token kinds. `stack[p]` are
  the lines process `p` is in: one typed, and those `log execute` replays inside of it,
  each a frame with the next group and the one to stop at. `broken` are the processes that
  have crashed: one whose replay finds no line tokenizes NULL (`Crash`; log.c:88-96, token.c:15), in an empty
  history, behind the end of `logs.txt`, or in a directory without that file. A line that does not fit the arrays of
  parse.c (`Fits`, `ArrayMax` for the 32 of the program) is written behind their end (`Overrun`), and what
  the shell does then is not modelled; its children go on.
* **ShellPipes.** `held` are the descriptors of every process, by the
  pipe, the end and the variable that holds it, so that a forgotten `close` is a descriptor that
  stays. Programs copy what they read, or end early.
* **CSharkSession.** `pc` names the statements of a capture between which SIGINT
  matters; `handle` is what libpcap knows of the handle and `g_handle` what the program does.

Definitions marked `\* bug` are plausible mistakes, used to see that the
properties notice them; no specification contains them.

## 3. Runs

| run | instance | shows |
|---|---|---|
| `bakery_standing` | 2 customers, 1 seat, 2 chefs, 1 spurious wakeup | `TypeOK`; the register is used by one chef (`PaymentSerialized`) and a cake baked once (`CakeBakedOnce`) even after the lock was stolen; `LockExclusion` and `SeatsCounted` until then |
| `bakery_capacity` | 3 arrivals, capacity 2, 1 seat, 1 chef | `CapacityKept`, with refusals, until the lock is stolen |
| `bakery_seated` | 2 customers, 2 seats, 2 chefs, fair | `ImplementsService`; `SafeUntilShutdown`; `ShopCloses` |
| `sham_reliable` | 4 chunks, window 2, no faults, fair | `ImplementsDelivery`, `BothEnd` |
| `sham_faulty` | 3 chunks, two faults of any kind, one early retransmission | `NothingForgotten`, `WrittenInOrder`, `WindowRespected` |
| `sham_chat` | up to 2 lines of each side, text or `/quit`, or one and the end of its terminal; one packet lost and one doubled or overtaken; fair | `LastWords`, `OneLinePerFin`: what is heard; `QuitEndsClient`; `WaitsAreAnswered`: no receive of the server blocks for ever |
| `shell_log` | ring of 3, 17 kinds of lines, three directories, 2 deaths, each perhaps inside of a line | `ReplaysTheOneAsked`, `ImplementsHistory`; `PromptTellsDirectory`, `RevealsAgain` |
| `shell_jobs` | 3 processes, 4 lines, 2 keys, table of 2, fair | `TableExact`, `RunningJobsRun`, `PromptAgain` |
| `shell_dispatch` | every line of up to 4 tokens and some longer ones, then two more lines or replays; 2 children; arrays of 4 | `ParsesGrammar`; `InTheOrderTyped`, `EachOnce`, `JobNamesWhatRuns`, `ReplaysEndFirst` |
| `shell_pipes` | pipelines of 1 to 3 programs with input and output files, pipes of 2 units, fair | `EndOfFileIsEnd`, `Delivered`, `PipelineEnds` |
| `cshark_session` | a store of 2 for 4 packets, 2 Ctrl-C per session, allocations that fail, fair | `StoreIsSession`, `NumberIsId`, `InspectorAgrees`, `OneCtrlCIsSafe`, `StopsWhenAsked` |

Every module has a type invariant `TypeOK`. It is a property of the runs `bakery_standing`,
`sham_faulty` and `cshark_session`, where bounds of the code are part of it; it holds in the other
runs as well, and so do `NoRepetition` and `FileMatchesRing` in `shell_log`, which help to read
`ImplementsHistory` and `ReplaysTheOneAsked`.

The instances are the smallest in which the interesting cases happen. One seat for two
customers makes one stand, and both may take the last seat; two chefs are
needed to pop one customer twice and to compete for the register; three arrivals for
a capacity of two are needed for a refusal, and for a lost update of the counter
if there is one. Four chunks with a window of two make the client wait for
acknowledgements and wrap over `inflight[]`; two faults let one packet be lost
and another delivered late; the chunks are longer than the name, as they are in
the program (1024 against at most 255 bytes, `ShamAssumption`). A ring of three
wraps after four lines and still has a middle entry. Three processes are a
background job and a pipeline; four lines are start, stop, resume and one more;
two keys are what it takes to run a one-shot handler and to miss it. Two lines of the client
let its words cross the FIN of a server and be taken for the answer, and one packet late lets a FIN overtake a text; four tokens hold two groups
and both separators, and the longer lines three groups, a pipe beside them, or one group, atom or argument more than the arrays hold; pipes of two units are filled by one
file and overrun by two; a store of two is full while two more packets arrive, and the four
chosen packets (padded, with IP options, over IPv6, cut short) are those the decoders could differ on.
`CHECK_DEADLOCK FALSE` is given where programs end, or where a bound stops the
users; `bakery_seated` is checked for deadlock.

### Disagreements with the comments

`sham_lost_tail` shows one as a run: a chunk lost after the end of the input was read is
never sent again (`FileComplete`; client.c:321), although client.c:64 says that what was not
acknowledged is retransmitted. The other properties the code does not keep are stated at the
end of each module, under "What the code does not keep". TLC refutes each of them with
the configuration named, the property in place of its own:

| property | configuration | the code |
|---|---|---|
| `SofaWithinSeats` | `bakery_standing`, 1 chef | two customers take the same last seat (threads.c:99) |
| `EveryoneLeaves` | `bakery_standing`, `LiveSpec`, 1 chef, no spurious wakeup or symmetry | a customer stands up after the last broadcast and is never woken (threads.c:121) |
| `PopsItself` | `bakery_capacity` with room for three | two unlocked pushes on the standing queue |
| `FilenameReceived` | `sham_faulty`, `FilesOpen = TRUE` | a chunk overtakes the name |
| `CloseCompletes` | `sham_lost_tail`, `LiveSpec` | the server sends its FIN once |
| `SocketPolled` | `LiveSpec`, ten bytes, six buffers, `{"duplicate", "reorder"}` | a late SYN-ACK shrinks the window while the first slot is free, and the loop never looks at the socket again |
| `LineTaken` | `sham_chat` | lines that stdio has read wait until something else arrives: `select` cannot see them (client.c:197) |
| `QuitEndsServer` | `sham_chat` | the `break` is commented out (server.c:268), against server.c:158 |
| `EitherChatOrFile` | `sham_chat` | leaving the loop the server goes on into the receiver of a file (server.c:157, 205) |
| `AskedLineReplayed` | `shell_log` | once the ring has wrapped, `log execute` replays an older line (shell.c:185) |
| `DashLeadsBack` | `shell_log` | `hop x -`, from the start, looks for a directory called `~` (hop.c:26) |
| `RevealsSame` | `shell_log` | `reveal -` after a hop uses the relative path of before (reveal.c:73) |
| `PipelineOver` | `shell_jobs`, `Spec` | a background job that ends is counted as a program of the pipeline (pipe.c:214) |
| `FinishedRemoved` | `shell_jobs` | `fg` without id removes the entry of an uninitialized index (bg.c:250) |
| `ShellSurvives` | `shell_jobs` | the second Ctrl-C or Ctrl-Z finds the default action |
| `JobsEndAtLogout` | `shell_jobs` | only the subshells are killed (signal.c:75) |
| `MostRecentChosen` | `shell_jobs` | `activities` sorts the table `fg` takes the last of (shell.c:216) |
| `StoppedJobsStand` | `shell_jobs` | Ctrl-Z stops nothing |
| `PipelinesOnce` | `shell_dispatch` | `execute_sequential` runs its pipeline once for each group (sequential.c:4) |
| `ReplayedWhole` | `shell_dispatch` | a replay skips the command after an `&` (log.c:110) |
| `AmpSemicolonGoesOn` | `shell_dispatch` | `a & ; b` is rejected (parse.c:30), which parse.c:137-141 leaves to the next turn of the loop |
| `EveryPipelineEnds` | `shell_pipes` | a program waits for its writer before it reads (pipe.c:62) |
| `OnlyLastAppended` | `shell_pipes` | with `>>` all output files are opened to append, against the comment "only for the last file" (atomic.c:52) |
| `FilteredStopsWhenAsked` | `cshark_session` | a Ctrl-C between the message and `g_capturing` is dropped (capture.c:101) |
| `FilteredNumberIsId` | `cshark_session` | a filtered capture numbers on from the session before (capture.c:52) |

`PromptAgain` needs `MayStop = {"program"}`: a program of a pipeline that
stops at the terminal is waited for without `WUNTRACED`, and the prompt does not come back.
`ParsesGrammar` states what the code accepts of the lines that fit its arrays, and so not `a & ; b`; its
grammar is that of the comments at parse.c:18 and 80, with the separators as the code has them.

What a property that holds leaves out is said in its premises, and the harmful case is in the table:
`LockExclusion`, `CapacityKept` and `SeatsCounted` end with the first theft of the lock, `TableExact` and `RunningJobsRun` where the
table is spoiled, `NumberIsId` and `StopsWhenAsked` are about plain captures, `PipelineEnds` about files
that fit into a pipe, `Delivered` about files that are there, `ReplaysTheOneAsked` about a ring that has not
wrapped, `OneCtrlCIsSafe` about the first Ctrl-C of a session, `BothEnd` and `ImplementsDelivery` about a network without faults.

### Fairness

* `Bakery!LiveSpec`: weak fairness of every thread, which any scheduler of the
  system gives. The mutexes need no more in `bakery_seated`, where each waits a finite number
  of times. Spurious wakeups and `pthread_create` failures are not fair: they need not happen.
* `ShamTransfer!LiveSpec`: both programs run on (weak). Timers in the closing loop are
  not forced. `PollReceive` is strongly fair, because `select` is entered again and again
  with the packet in the buffer; `ClosingReceive` is weakly fair for the same reason.
  Packets are delivered unless `Network` takes them, which it does a bounded number of times.
* `ShamChat!LiveSpec`: both programs run on (weak), and a `select` that keeps finding a packet
  says so. Nobody is made to type.
* `ShellPipes!LiveSpec`: the shell, every child and every writer run on; a program ends or
  copies, and ends at the end of its input.
* `CSharkSession!LiveSpec`: `main` runs on inside a session. Packets, keys and choices are not fair.
* `ShellJobs!LiveSpec`: the shell goes on when no call blocks it, and a program that
  is not stopped ends. Users and signals are not fair.

## 4. Proofs

Eight modules hold theorems of the specifications, for every value of the constants that the
assumptions of the modules allow. Each follows from one inductive invariant: the properties,
and what has to be true besides for a step to keep them. All invariants were
checked by TLC, on the instances of section 3, before they were proved; there is one lemma for each action
or kind of step, and lemmas on sequences, sums and sets that they share.

| module | theorem | of the property |
|---|---|---|
| `BakeryProofs` | `TypeCorrect`, `OneAtTheRegister`, `SectionsExclusive` | `TypeOK`, `PaymentSerialized`, `LockExclusion` |
| | `EveryCakeOnce`, `NeverOverCapacity`, `SeatsAreCounted` | `CakeBakedOnce`, `CapacityKept`, `SeatsCounted` |
| | `SafeWhileSeats`, `ServiceWhileSeats` | `SafeUntilShutdown`, `ImplementsService` (refinement), as long as `FindsSeat` |
| | `SafeWithSeats`, `ServiceImplemented` | the same, if `NobodyStands` |
| `ShamTransferProofs` | `TypeCorrect`, `KeepsWhatIsNeeded`, `WritesAPrefix`, `RespectsWindow`, `RefinesDelivery` | `TypeOK`, `NothingForgotten`, `WrittenInOrder`, `WindowRespected` (an action property), `ImplementsDelivery` (refinement) |
| `ShamChatProofs` | `TypeCorrect`, `LastWordsHeard`, `OneLineLostPerFin` | `TypeOK`, `LastWords`, `OneLinePerFin` |
| `ShellLogProofs` | `TypeCorrect`, `FileIsTheRing`, `PromptIsRight`, `RevealIsRepeatable`, `ReplayIsRight`, `RefinesHistory` | `TypeOK`, `FileMatchesRing`, `PromptTellsDirectory`, `RevealsAgain`, `ReplaysTheOneAsked` (action), `ImplementsHistory` (refinement) |
| `ShellJobsProofs` | `TypeCorrect`, `TableIsExact`, `RunningJobsDoRun` | `TypeOK`, `TableExact`, `RunningJobsRun` |
| `ShellPipesProofs` | `TypeCorrect`, `EndIsTheEnd`, `EverythingArrives` | `TypeOK`, `EndOfFileIsEnd`, `Delivered` |
| `ShellDispatchProofs` | `TypeCorrect`, `GrammarParsed`, `OrderKept`, `JobsNamed`, `ReplaysNested`, `OnceEach` | `TypeOK`, `ParsesGrammar`, `InTheOrderTyped`, `JobNamesWhatRuns`, `ReplaysEndFirst`, `EachOnce` |
| `CSharkProofs` | `TypeCorrect`, `StoreHoldsSession`, `PacketsNumbered`, `FirstCtrlCSafe`, `InspectorShowsWhatArrived` | `TypeOK`, `StoreIsSession`, `NumberIsId`, `OneCtrlCIsSafe`, `InspectorAgrees` |

**Bakery**, from `BakeryAssumption` (the threads are finitely many and distinct, the numbers natural).
`TypeInv` adds to `TypeOK` that while main handles an arrival there is one. `RegisterHeld` says that
the chef at the register holds `payment_mutex`; it needs nothing of `lock`, which is why
it survives the damage customers do. `LockInv`: every step of a
thread is `Disciplined`, it stays inside or outside of its section or releases `lock` on leaving. The
exception is a chef who falls through the inner loop at the shutdown
without the lock (threads.c:20) and would take work if there were any: `Closing` and
`FellIdle` say that there is none. `CakeBakedOnce` is inductive with `TypeInv` and `AwayUntilTurn` (a
customer is away until main has come to him, so that main never moves one who is inside): four steps, two
of a customer and two of a chef, hand the request for a cake on, and no other touches it;
it needs nothing of `lock`. `CountInv` is about the counters: what was loaded from one is
still its value at the store (`Loaded`), because until the lock is stolen nobody else is in a section, and a customer on
his way to a mutex knows for which queue (`OnTheirWay`).

`SafeWhileSeats` and `ServiceWhileSeats` are about the executions in which each customer who looks for a seat finds
one free (`[]FindsSeat`), for any capacity and number of seats. Others may take that seat before he sits, so that more may
sit than there are seats (`SofaWithinSeats` fails there too); what matters is that nobody is pushed
on the queue that is changed without the lock. `SafeWithSeats` and `ServiceImplemented` are about all executions when there are as many
seats as the shop has room, or as there are arrivals (`NobodyStands`, as in `bakery_seated`; with the program's 4
seats, up to four arrivals): `FindsSeat` then follows from the counters (`SeatFree`). Some such condition is
needed: with one seat for two customers TLC refutes both properties. Their invariant is `ShopInv`, the facts above and `ServiceInv`, of six
parts. `LinesKept`: each of the two queues is a linked list without repetition (`Chained`; that there is one
such list for a head is proved by the first link where two would part, `ChainIs`), whose tail and size are right unless
a thread is between the stores of `q_push` or `q_pop`. `Editors` says, for every label in between, which of head, tail, size
and `next` that thread has already changed. `Queued`, `Handled`, `Posted`: a customer in a list is waiting there; one
whom a chef took off is in neither list and with no other chef; a semaphore is posted at most once, to the customer that waits
for it. From them every pointer followed is that of a customer still there (`NodesAlive`), and nobody
releases `lock` from outside of his section (`NobodySteals`). For the refinement, `CustomerServed`, `ChefServed` and
`MainServed` show for each step the step of the service it is, or that it changes nothing seen (`Unseen`): the
store that links a customer into a list is his joining the line, the store of the new head is the chef's taking him.
`Passed` gives that arrivals are let in in order.

**File transfer**, from `ShamAssumption`. What is in either channel depends on where the client is
(`ChannelsOK`: no FIN before it has read the file, and every acknowledgement until then is one that the
server still stands by), and so does where the server may be (`ServerOK`). `OutOK` is
the prefix, with the one chunk whose number could be mistaken for the name's. `RoomOK`
bounds the copies buffered, whose sum `Available` advertises. `WindowOK` is why
the window holds in spite of an `in_flight_bytes` computed once per pass: slots are only freed
in between, so the count may be old but never too small. `CopiesOK` is that a slot is cleared only when the server
expects what comes after its chunk; with `OutOK` the chunk is then in the file, unless a chunk was taken for
the name and nothing is ever written (`NothingForgotten`). The sums are recursive functions: what
they add up to is proved from their unfolding, by the least counterexample.

`RefinesDelivery` is about `sham_reliable`'s network and has its conditions as hypotheses (`FifoAssumption`): no faults,
a name within the client's buffer, a socket buffer that holds the handshake, one chunk per slot and the early retransmissions. That what is written
is a growing prefix, never shrinking or repeating, follows from `OutOK` for any network; that it is
*complete* when the server is done does not (`FileComplete` is false with losses), and needs `FifoInv`: the handshake
is at the front of the channel (`ShakeOK`), the server sends no FIN before it is done (`NoFinYet`), nothing is buffered
(`SlotsOK`), and every chunk sent is written or on its way, each behind the one before it, the FIN behind them all, in a
channel that never overflows (`InOrder`, with `Arrives`).

**Chat**, from `ChatAssumption`, for any number of packets lost, doubled or overtaken. `OrderOK` keeps what was printed
and what is under way within what was said and, as long as nothing was late, the one before the other in the order typed. `HeardOK` is the
reason for `LastWords`: while the client listens, of what the server had said at its first FIN all but `lost + late`
lines were printed or are under way to the client *before the first FIN*. `MissedOK` counts
for `OneLinePerFin` the line that a blind receive has not taken yet (`Waiting`); late packets do not enter, because
a text that comes late is still printed.

**Shell history**, from `LogAssumption`, `LinesAssumption` (a line has a command) and
`HopAssumption`. `FileOK`: at the prompt `logs.txt` is the ring; during a save it is its beginning, and what is left to
write is the rest; a line that is not logged begins with the two equal, so that a death in the middle of a save leaves
the oldest lines, and after them at most the beginning of one more. `PlaceOK` and `SeenOK` say what the strings that `hop` and
`reveal` keep lead to, by lemmas on `Leads`, the walk along a path. `RefinesHistory` maps every step of
`ShellLog` to a step or a stutter of `BoundedHistory`: the abstract history is what is in the ring,
wrapped or not, or, in a death, what was saved of it.

**Jobs**, from `JobsAssumption`. `KernelOK` is about the kernel's side: a dead process stays until its
status is read, one that was continued runs, processes are created in the order of
their pids. `TableOK` holds as long as nothing is spoiled: the process in the foreground is not listed
(`ForegroundOK`), every child started with `&` is listed once and nothing else is (`ListedOK`), and what is listed
as running does run. `check_jobs` compacts the table while it walks it, and is proved correct for a table of
any length, again by the least counterexample.

**Dispatch**, from `DispatchAssumption` (lines are sequences of token kinds). The parser first: each of its three loops is
a recursive function over the positions of a line, and for each a lemma says, by the least counterexample from the end of the line, where it
stops and what the tokens up to there look like: `parse_atomic` at the first token that is no argument,
`parse_cmd_group` at the first that is no pipe either, the loop of `parse_shell_cmd` at the first that begins no group (`LoopParsed`). That gives `Grammatical`; that
the ends of the groups are all the separators, in order, gives `GroupCount` and `BackgroundCount` (`GroupsCounted`, `BackgroundCounted`),
and `LineParsed` collects what the rest needs of the parser. `DispatchInv` then relates what was dispatched,
every process's stack, the job entries and what was run. `Stacks`: the first of the lines a process is in was typed, or is the background of one,
the others are replays, each later than the one below. `Apart`: no group is before two processes, or
before one process twice. With them `Foreground` (what is due was run in order, or is before the shell), `Jobs` (what an entry names its
child has run, or has before it), `Nested` (a replay a process has left was run whole and is not entered again) and `Once` (every group was run, or is before exactly one process, never both) are inductive. The parser's
lemmas need nothing of `ArrayMax`: a line that does not fit is never dispatched. A replay
does two things at once, it runs its own group and dispatches a line, and the invariant is a
predicate of values (`Good`), so that it can be carried through the state in between.

**Pipelines**, from `PipesAssumption`. `HeldOK` says which ends of which pipes each process holds at
every point of `execute_atomic`; a pipe is at its end when nobody holds a write end, so with it
`PipeOK` gives that nothing more can come. `FlowOK` and `PipeOK` account for
every unit: read, in the pipe, or still with its writer.

**C-Shark**, from `CSharkAssumption` (the markers of the store are no packets, a packet holds its
Ethernet header). `IInv` adds to four properties `GlobalsInv` (where in a session each global is set; the
handle is open until it is closed; `pcap_loop` returned for a reason, and the handle was marked by a Ctrl-C)
and `StoreInv` (a session has a store; the counter of a plain capture is the number of packets
printed; the inspector looks only at entries that were filled). `InspectorShowsWhatArrived` needs besides
`DecodersAgree`, about the operators of `CSharkDecode` alone: for every packet with sound headers that arrived
whole the two decoders show the same. `WellFormed` and `Complete` are its limits: for a
frame cut short, or lengths that contradict each other, they differ.

Every other property of a passing run is a theorem. Only model-checked:

* what depends on fairness, which the prover does not reach: `ShopCloses`, `BothEnd`,
  `QuitEndsClient`, `WaitsAreAnswered`, `PromptAgain`, `PipelineEnds`, `StopsWhenAsked`.

## 5. What is abstracted

Output, logging and formatting; durations (the order of steps stands for them); contents
of packets, files and command lines. Sequence numbers do not wrap at 2^32, and the file is cut
in whole chunks as the client does. A file name is at most 255 bytes, with which the runs keep
`BothEnd`: a longer one moves the expected number by less than the client counts (server.c:313). A chat line fits into a
packet. A directory other than the shell's
home has no `logs.txt`. Pids are not reused. The job table and ring are short (`JobsMax`, `LogSize`); a job more than
`JobsMax` ends the behaviour ("overrun"), because do_in_bg does not test the bound (bg.c:171). In `ShellJobs` a line
that starts no command, or names a job that is not there, is `OtherLine`, and the subshell of a background job
is `inner` only: what it does to its copy of the shell's memory is lost with it; `ShellDispatch` has
the groups it runs. The shell is taken to be started by another one, so that Ctrl-Z can stop it, and `ping` names processes
it has started with `&`. Writes to `logs.txt` succeed as long as the shell lives.

Not modelled:

* the clock and log of the bakery, the log and MD5 of `networking`, the shell's prompt and
  C-Shark's hex dumps: they print and keep nothing (the name of the directory that
  the prompt shows is in `ShellHop`);
* token.c beyond the kinds of its tokens: cutting characters into words;
* in `ShellJobs`, jobs a background child starts in its own copy of the table, and a `fork` that fails: do_in_bg would
  list -1 as a job (bg.c:5, 171);
* in `ShellPipes`, a `pipe` or `fork` that fails, with which the shell exits (pipe.c:13-16, 21);
* what the shell does once a line has overrun an array of the parser, and the array of tokens itself;
* in the chat, the packets of the handshake that come late into it.

## 6. What is left

Every part with state of its own is modelled, and all that the passing runs check is proved but
for liveness. Open: what can still be promised once a customer stands, beyond the theorems that do not
ask about seats; the lengths of file names above 255 bytes, and sequence numbers that wrap.
