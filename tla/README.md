# Verification of *Informatique concurrente et répartie*

TLA+ models, model-checking runs and machine-checked proofs for the programs of
this repository: a distributed critical section over TCP with a remote log
(`projet/`), the producer-consumer programs (`TP1`, `TP2`, `TP4`), three programs
with pipes and signals (`TP3`), the socket servers (`TP5_Socket`, `socket java`),
and the remote calculators (`CORBA`, `RMI`).

Names in the modules are those of the code (French, like the code); comments are
in English. `PROJECT.json` maps every definition to the lines it models.

1. [Inventory](#1-inventory)
2. [Modules](#2-modules)
3. [Runs and bounds](#3-runs-and-bounds)
4. [Fairness](#4-fairness)
5. [Proofs](#5-proofs)
6. [What the code does not do](#6-what-the-code-does-not-do)
7. [Not modelled](#7-not-modelled)
8. [Plan](#8-plan)

## 1. Inventory

### `projet/`: the distributed critical section

One Unix process per port of `serveurs.conf`, each with four threads that share
nothing but pipes:

```
          pipeReception                      pipeEnvoi
 serverWorker* ----------> calcul ------------------------> client --TCP--> serveur of
       ^                     |                                              another process
       | one per connection  +--pipeTrace--> trace --RPC/UDP--> trace_server
    serveur
```

| Component | State | Operations | Hard behaviour | What makes it correct |
|---|---|---|---|---|
| `calcul` (calcul.c) | `horloge`, `wantSC`, `compteurReply`, `queue`, `queueIndex` | read a message (REQUEST, REPLY, RELEASE, MESSAGE), the section, one random action | messages in any order, anonymous REPLYs, an array that is never initialised | a process enters with everybody's agreement; the two counters are exact; requests are granted and released |
| `client` (client.c) | the message in hand | read the pipe; connect, send, close | a refused connection ends the process | nothing lost or repeated |
| `serveur`, `serverWorker` (serveur.c) | listening socket, one thread per connection | bind, listen, accept, create; recv, write to the pipe | workers reorder; threads are never joined; `accept` is not tested, and a `recv` that gives nothing is taken for data | at most once; delivery while threads last |
| `main` (main.c) | children, SIGINT handler | fork, pipes, first message, sleep, threads | start order, CTRL-C, main ends before its children, a thread that was not created goes unseen | what it takes to lose a process of a complete system; CTRL-C stops everybody |
| `trace` (mytrace.c, trace_client.c, trace_server.c) | pipe, log file | read the pipe, RPC | no server: `exit(1)`; UDP retransmission | logging does not stop the protocol |

A process that wants the section broadcasts REQUEST, counts one REPLY per
process (its own included), enters, broadcasts RELEASE. The receiver stores a
REQUEST in its queue and answers at once. It looks like Lamport's algorithm, but
nobody compares requests: what it really guarantees is *agreement*, not exclusion
(section 6).

### Exercises

| Component | State | Operations | Hard behaviour |
|---|---|---|---|
| `TP1_correction.c`: two processes, shared memory, System V semaphores | byte count and cells, `plein`, `vide`, `mutex` | producer, consumer, destruction | interleaving of each memory access, a count in a `char` for buffers said to have up to 255 cells, order of destruction |
| `TP2_correction.c`, and the student's `TP2_thread.c`: the same with two threads and `sem_t` | the same, plus the received string | producer, consumer, `pthread_create` | a count of letters instead of a final 0, memory that `malloc` did not clear, a creation that fails unseen |
| `TP3_*`: pipes and signals, parent and child | pipe, handlers, signal masks | write, `kill`, `pause`, `sigsuspend` | lost wake-ups, signal before its handler |
| `TP4_*`: Java monitor | `index`, `tableau`, wait set | `placer`, `retirer` | spurious wake-ups, `notifyAll` with several producers and readers |
| `TP5 …_leger.c`: server with one thread per connection | `connexions`, semaphore, `fin` | main loop, `traiterRequete`, SIGINT | entries freed without a lock, interrupted calls |
| `TP5 …_lourd.c`, the student's `server_fork.c`: one process per connection | descriptors of each process, zombies | accept, fork, read, answer, SIGINT | inherited descriptors, processes that run out, a child that goes on accepting |
| `socket java` `Serveur-1`, `Serveur-2`: one connection at a time | the connection | accept, read, answer, close | exceptions inside and outside the loop, stream headers |
| `socket java` `Serveur`, `Client`: datagrams | one request, one answer | send, receive | loss, no timeout |
| `CORBA/`, three versions of a remote adder | naming context and name, on disk | create context, bind, rebind, resolve, `additionner` | concurrent registration, a service that stops between two calls, dead servers |
| `RMI/` | registry, in memory | `bind`, `lookup`, three calls | a name nobody removes |

What makes each correct is in the table of section 3. `TP1_fork_sharedMemory.c` and
`TP5_Socket/server_thread.c` do not compile.

## 2. Modules

| Module | Models | Correspondence |
|---|---|---|
| `FileRequetes` | the request array of calcul.c | `Ranger` is the insertion of lines 91-104 with its loop bound as written, `RetirerPremiere` the shift of lines 79-83; both are functions of the old array |
| `Calcul` | the loop of the calcul threads of all processes | one action per branch of the handler; `pc` separates reading, the section and the random action. `reseau[q]` is the set of messages on their way to `q`. `demande`, `repondants`, `enregistrees`, `liberees`, `perdues` are history variables that no guard reads |
| `Accord` | abstract: a process enters when all agreed to *this* request | implemented by `Calcul` (`ImplementeAccord`) |
| `Transport` | calcul → pipe → client → TCP → serveur → worker → pipe → calcul | bounded pipes, backlog and thread supply; calcul is reduced to what it reads and writes |
| `Canal` | abstract: an exactly-once channel that reorders | implemented by `Transport`, where a message dropped for lack of a thread stays in transit; it is the network of `Calcul` |
| `Demarrage` | main.c, and the failures of each thread | processes are born, sleep, create threads, die of `exit` or of CTRL-C; connections end with their process. `echecs` is the list of system calls that failed without a cause in the environment: `ManquerThread`, `ManquerWorker` and the `Echouer…` actions are what the code does then |
| `ProducteurConsommateur` | TP1_correction.c | one step per access to the shared memory or to a semaphore |
| `TamponThreads` | TP2_correction.c, TP2_thread.c | the same with threads: `Creer` may leave the program without a consumer; the variable `programme` chooses the version, whose P and V differ. The byte that follows the received string in the heap is `suivant` |
| `Moniteur` | TP4 | one step per pass through a synchronized method; `wait` splits it |
| `FileBornee` | abstract: a bounded FIFO queue | implemented by the three above |
| `Signaux` | TP3, the three programs | the main functions as sequences of steps, the handlers as interruptions of any step; pending signals are sets, for a signal is not queued twice |
| `ServeurLeger` | TP5, multi-threaded server | one step per access to the array or to the semaphore, one per turn of the search; five effects of SIGINT, by the call it interrupts. `pc = "accept"` is the way from the test of `fin` to `accept` as well as the call, so that a SIGINT may come too early to interrupt it; `perdu` is a history variable that says so |
| `Serveurs` | TP5 `…_lourd.c`, `server_fork.c`, `client.c`; `socket java` Serveur-1/2, Client-1/2 | process 1 is the server; each process has its own set of open connections, which `Forker` copies; a client sees the end of a connection when no process has it open. The four programs share the loop and differ in `GardeApresFork`, `AvecRequete` (what a read with data leads to: the child of `…_lourd.c` may find no memory), `SansRequete` (what one without data leads to) and `Fermer` |
| `Datagrammes` | the trace of `projet/` (mytrace.c, trace_client.c, trace_clnt.c, trace_svc.c, trace_server.c), `socket java` Client and Serveur | `Mylog` is calcul's write in the pipe, `Creer` … `Abandonner` the trace thread in `clnt_call`; the server takes a datagram, writes, answers, and may die in between |
| `Nommage` | `CORBA` version1, version2, version3; `RMI` | one action per call to the naming service or to the object, each with the exceptions its `catch` blocks tell apart; `pannes` are deaths of servers and stops of the service |

`MC*` modules define the constants of the runs and `*_proof` hold proofs. Three `MC*` modules
instantiate theirs under a prefix, so that a proof module can extend two components with the
same names: `TamponThreads` is `TP2` in `MCProducteurConsommateur`, `Moniteur` is `TP4` in
`MCMoniteur`, `Transport` is `TR` in `MCTransport`; the assumptions on their constants are there.
Operators marked "Mutant of" are wrong versions of the operator that
follows them, used to see that the properties notice.

The abstraction common to all: texts, dates, displays and log lines are left out;
a message is a record of what its handlers read.

Where several programs solve the same problem, one module models them and a variable
`programme`, chosen in the initial state, says which one runs.

`Transport`, `Demarrage`, `Calcul` and `Datagrammes` look at the same processes from four
sides (queues and threads; life and death; protocol; trace). `Canal` is the seam: `Transport`
implements it and `Calcul` assumes it.

## 3. Runs and bounds

| Run | Bounds | Shows |
|---|---|---|
| `calcul_protocole` | 2 processes, clock ≤ 2, array of 6 zeros, fair | `AccordDeTous`: in the section ⇒ request stored, unreleased, everywhere. `Inv`, the invariant of the proofs: among others, no RELEASE overtakes its REQUEST though the network reorders, and the anonymous REPLYs counted come from distinct processes. `ImplementeAccord`: the loop implements `Accord`. `PerteExpliquee`: on a zero stack a REQUEST is only forgotten because of what a RELEASE left behind. Requests are granted unless somebody forgot them; a granted request is released everywhere |
| `transport_messages` | 2 processes, pipes and backlog of 1, 3 threads each, 2 writes each | `Transport` implements `Canal`; what is not dropped for lack of a thread is delivered; no circular wait through the bounded queues |
| `demarrage_arrets` | 2 processes, 1 write each, 1 failed call; busy ports or not, trace server or not, sleep long enough or not, CTRL-C or not | any one system call of a thread may fail. `Inv`: which death or failed call a phantom or lost message needs; the first refused connection is one to process 1, which the sleep does not protect. `CompletDure`: which of them a complete system needs to lose a process. `ArretComplet`: CTRL-C ends everybody |
| `tampons` | TP1: 3 cells, 6 letters and the final 0. Then TP2: 4 cells, messages of 0, 3 and 6 letters, both versions, with and without a consumer | the string arrives; exclusion; both refine `FileBornee`; TP1 terminates. `InvThreads`: semaphores, display and letters received agree. `ThreadsFinissent`: TP2 shows exactly the message iff the next byte of the heap is 0, blocks for ever if the consumer was not created and the message is longer than the buffer, and the student's version dies with its first letter |
| `moniteur_threads` | 3 producers of 3 letters, one of which ends with `'\0'`, 3 readers, queue of 2 | refines `FileBornee`, so that nothing is lost or duplicated; nobody left asleep with work to do; as many readers end as there are `'\0'` |
| `leger_requetes` | 3 clients, 2 entries, backlog of 2, 2 signals, fair | an entry is never shared; the semaphore is exact up to interrupted waits; `Inv`, the invariant of the proofs; answers or disconnection. `ArretAboutit`: CTRL-C is honoured, but for a signal that another thread takes, or that the main thread takes between its test of `fin` and `accept` |
| `tp3_signaux` | messages of 0, 127, 128, 256, 300 letters; sleep long enough or not | `Inv`: which signal may end whom and when, and the child does not end before it has the message; who may wait for ever |
| `serveurs_connexions` | each of four servers with 3 clients, one of which may be killed anywhere; 3 processes, 2 descriptors per process, CTRL-C | `Inv`: one process deals with a connection, however many accept; the server that closes after `fork` keeps only the connections whose `fork` failed. `FinExpliquee`: only CTRL-C ends a server, except Serveur-1, which the death of one client ends; nothing else cuts off a client that lives, except the child of `…_lourd.c` that finds no memory. `ReponseAboutit`: who sent a request is answered or cut off, unless `fork` failed or descriptors ran out everywhere |
| `datagrammes_pertes` | trace and Java datagrams: 2 clients (3 lines and 1), a pipe of 1, a socket of 1, 2 transmissions, 1 death of the server | `JournalFidele`: a call that succeeded is in the log, a line is there at most once per transmission, lines of a process stay in order. `TraceContinue`: the trace never blocks calcul for good. `ReponseOuPerte`: a Java client waits for ever only if a datagram of its own was lost |
| `nommage_pannes` | four programs, 2 servers, 2 clients, 2 failures | `ResultatExplique`: who ends has the exact sums; an exception to a client that has a reference means that its server ended. `NomDurable`: rebinding never leaves a moment without a name. `ServiceRendu`: registering again restores the service whatever dead server held the name |

The two `violation` runs are in section 6. A case that the environment decides
(a busy port, a short sleep, the length of a message) is a variable chosen in the
initial state, so that one run covers all its values.

*Why the bounds are enough.* The two clock values of `Calcul` give every process a
second request while messages of the first are still on their way, which is what
the anonymous REPLYs could confuse; three processes, whose states are too many for two
requests each, are left to the proofs. The array needs one slot more than the
`N * MaxHorloge` requests it can receive (`PlaceHypothese`), plus a margin that
holds leftovers of the stack. Above `MaxHorloge` the clock stands still, so that the
bound never blocks a process. In `Transport` queues of one element are the worst case for
blocking; a process receives up to five messages there, with three threads, so that
connections are dropped too. In `Demarrage` one write may already be a broadcast, and a
message may be answered by one; one failed call shows each of the consequences, and the proofs
are for any number of them. In `ProducteurConsommateur` the string is longer than two
fillings of the buffer. In `Moniteur` the queue is smaller than either group of
threads, which is when a notification can reach the wrong thread. In `ServeurLeger`
three clients compete for two entries, so the search may fail. In `Signaux` the lengths
lie on both sides of the range of a `char`, and of a byte. The messages of `TamponThreads`
are empty, shorter and longer than the buffer. In `Serveurs` three clients exhaust two
descriptors, and a server with two children three processes; larger numbers only postpone
that. In `Datagrammes` one client traces two lines more than its pipe holds: one in the hands
of the trace thread, one in the pipe, one that blocks; a socket of one datagram overflows with
two clients, and two transmissions suffice for a late answer, a duplicate and a call given up.
In `Nommage` two servers race at every call, and two failures let the second happen while one
repairs the first. The bounds on clocks and
letters vanish in the proofs of section 5.

Deadlock checking is off where the system may really stop: all processes of
`projet/` wait in `read` when no message is left, and the exercises end.

## 4. Fairness

Weak fairness per thread, never per action, for a thread that can run does. Two
threads share an action only where the code shares a scheduler (the workers of
one process: one of those that can write does). What the code does not promise is
not assumed: no fairness on the choice between random actions, on clients that
connect, on CTRL-C, on `main` going on, on somebody typing at the keyboard. `ProducteurConsommateur` and `Moniteur`
need that a waiter of the mutex or of the monitor is passed over finitely often,
which holds as the other side's work is finite. In `ServeurLeger` a client that connected
sends its request, as `socketUnix_Client_v2.c` does. In `Serveurs` and `Nommage` programs that
were started go on, and nobody has to start one. In `Datagrammes` a server that runs goes on,
but nobody has to launch it, and no message has to arrive: `TraceContinue` holds because
`clnt_call` gives up, not because the network is fair.

## 5. Proofs

`tlapm` checks these for all values of the constants that satisfy the named
assumptions of the modules.

**`Calcul_proof`**: `TypeCorrect`, `InvariantInductif`, and from it `AccordCorrect`,
`ReleaseCorrect`, `ReplyCorrect`, `EtapeCorrecte`, `IndexCorrect` (`queueIndex` is the number of requests
stored and not released). Assumptions: `N < 10` (with
ten ports calcul.c:29-37 never assigns `nbServeurs`), any initial content of the
array (`PileInitiale ⊆ Files`), and an array longer than the requests the bound on the
clock allows: that the 1000 slots of the code are enough is thus assumed, not proved, for its clock
has no bound. The items of a stack that was used are any pairs of integers.

*Argument.* `AccordDeTous` is not inductive: a REPLY in transit could be an old one.
`Inv` adds where each request is. `InvRequest`: a REQUEST in transit is the
current one of its sender, and its receiver did nothing about it yet. `InvReply`: a
REPLY in transit answers the current request, is the only one of its sender, and
its sender stored the request. `InvRelease`: a RELEASE in transit finds its request
stored, and comes from a finished request. `InvRepondants`: `compteurReply` is the
number of *distinct* processes that answered. `InvRegistres`: `queueIndex` is the number
of stored requests. `InvStades`: between REQUEST and reset each process has one of
four stages left. The key step is the last REPLY: N distinct processes answered,
each of them stored the request, and no RELEASE of it can exist before the section.

`Raffinement`, `Spec ⇒ ImplementeAccord`: REQUEST is `Demander`, storing is `Accorder`, the last
REPLY is `Entrer`, RELEASE and reset are `Sortir`, the rest stutters.

`PertesExpliquees`, `PileNulle ⇒ (Spec ⇒ □PerteExpliquee)`, adds a hypothesis: every initial array
has zero clocks, as when the stack was never used. *Argument.* What is in the array is a zero or
the clock of a request that was stored, and until the first RELEASE only zeros follow the stored
requests (`PileExpliquee`), so that the insertion always finds its slot. Without the hypothesis a
residue of the stack alone makes a process forget a REQUEST.

**The network, also in `Calcul_proof`**: `TransportCorrect`, and `RaffinementCanal`,
`TR!Spec ⇒ ImplementeCanal`, for every number of processes and every bound on pipes, backlogs,
threads and writes. *Argument.* A message goes through seven places: what calcul has to write, the
pipe, the client's connection, the backlog, a worker, then what arrived, or what was dropped.
`InvLieux` says that it is in one of them only, and that a number above `envois` was not used yet;
`InvAdresses` that its place agrees with its sender and receiver; `InvDistincts` that no queue
holds it twice, which is what makes a Tail remove it. A write is then `Emettre`, a worker's write
`Livrer`, and everything in between moves messages inside `transit`. The first message of process 1
is written by `main` and is left out of what arrived, for which `InvDistincts` says that it is there.

**`Demarrage_proof`**: `MortsEtPertes` (`Inv`) and `CompletDureVrai` (`CompletDure`), for every number of
processes, of writes and of failed calls. *Argument.* Only process 1 starts with a message, so that nobody connects before it runs
(`Silence`), unless a failed call invented a message. `InvVies`: processes are born in order and listen only
once launched; when the second of `sleep` is long enough and no call failed, process 1 is launched after `main`
forked all, and the others that live listen by then: a first refusal can only concern process 1.
`InvServeur`: who listens has a serveur thread, so that `main` waits for it and does not end. `InvMorts`:
before the first refusal nobody dies but for the environment (busy port, no trace server), a failed call or
CTRL-C. `InvMessages`: where a message is says whose it is, and only the answer to a phantom goes to a port
that nobody has; so a complete system without phantoms has no refused connection.

**`ProducteurConsommateur_proof`**, TP1: `InvariantInductif`, `ReceptionCorrecte`,
`AccesCorrect`, `Raffinement` (`Spec ⇒ ImplementeFile`), for buffers of 3 to 128 cells (with one or two,
`afficherTitre` allocates a block of negative length). *Argument.*
`InvSemaphores` expresses the three semaphores by the two program counters and letter numbers,
`InvTampon` gives the content of each cell between any two accesses, `InvProgres` what was
received. The abstract queue is a segment of the string, which grows at one end when the count of
the buffer grows and shrinks at the other. The bound of 128, where
TP1_correction.c:125-126 says 255, is exact: `DebordementAuDela` proves that in a larger buffer, when the
producer may write and 128 letters wait, the `char` reads -128 and the cell is past the end.

TP2, under the prefix `TP2`: `ThreadsCorrects` (`InvThreads`) and `RaffinementThreads`, for all sets of
lengths and 1 to 127 cells. *Argument.* `InvTours`: a thread in its loop has a turn left. `InvSem`: the
semaphores by the program counters. `InvLettres`: the cells hold the letters sent and not taken, one step late
in `Decompter`. `InvRecue`: what was received is a prefix of the string. `InvEtudiant`: the student's
semaphores never move, so that its version sends nothing.

**`TP3_TP4_proof`**, TP3: `SignauxCorrects` (`Inv`), for every set of lengths. *Argument.* `Inv` speaks of who may
die of which signal; one needs what each process knows at each line: `InvPere`, what the parent waited for
before it went on; `InvFils`, the child installs its handler before it opens the pipe, and only an answer takes
it past its last step; `InvSignaux`, a signal is sent once and answers what was done before; `InvTube`,
the pipe holds what the parent wrote and the handler did not read.

TP4, under the prefix `TP4`: `MoniteurCorrect` (`InvMoniteur`), `JamaisTousEndormis`, and
`RaffinementMoniteur`, `TP4!Spec ⇒ ImplementeFile`, for all sets of producers and readers. *Argument.*
`InvSommeil`: a producer sleeps only while the queue is full, a reader only while it is empty, for
whatever changes that wakes everybody. `TypeOK` makes `index` the length of the queue, so that
`offer` never refuses; `InvProgres` bounds the characters placed.

**`Serveurs_proof`**: `UnProcessusParConnexion` (`Inv`) and `FinToujoursExpliquee` (`FinExpliquee`), for all four
servers and all numbers of clients, processes and descriptors, under `Aucun ∉ Clients`. *Argument.*
`InvEtats`: where the processes of each program may be. `InvFile`: a connection that waits is there
once, and no process has it; so whoever accepts is alone with it until it forks. `InvTenues`: who keeps a
connection open besides the process that deals with it. `InvReponses` and `InvOuvertes` are for
`FinExpliquee`: without CTRL-C, and for Serveur-1 without a dead client, a process that answers has a request, and
who has no answer has a connection, so that no read or write fails.

**`Datagrammes_proof`**: `JournalFideleVrai` (`JournalFidele`), for all clients, lines, transmissions, deaths and
sizes. *Argument.* `Ordre` puts the lines of a client in order along their whole way (log, request
dealt with, socket, current call), which late duplicates would break if a socket reordered.
`Reponses`: an answer is sent for a line that is in the log. `Comptes`: log, server and socket together hold a
line at most as often as it was sent; the lemmas on `Occurrences` say how Append and Tail change such a count.

**`ServeurLeger_proof`**: `InvariantInductif`, `EntreeCorrecte`, `CompteCorrect`, under
`Libre ∉ Clients` (-1 is not a descriptor). *Argument.* `EntreeExclusive` alone is not
inductive: the main thread might be about to write in the entry of a thread. `InvPrincipal`
says that the entry it found stays free, for the threads only free entries, and then belongs to
a connection without a thread; `InvAttente` says that a connection accepted is a new one. None
of this rests on the semaphore, which interrupted waits make inexact: `CompteExact` counts by
how much.

**`Nommage_proof`**: `InvariantInductif`, `ResultatCorrect`, `NomCorrect`, for all sets of
servers and clients and any number of failures, under `Aucun ∉ Serveurs`. *Argument.*
`ResultatExplique` is not inductive: a client that gets an exception must hold the reference of a
server that *will never answer again*. `InvServeurs` says that names and references come from
servers that were started, `MortDefinitive` that such a server does not come back;
`InvClients` ties the stage of a client to the number of its results and to its reference.
`NomDurable` needs that only version3 goes through the steps that rebind.

Every invariant and every refinement that a passing run checks is thus proved for all values of the
constants within these assumptions, and so are the action properties `NomDurable` and `CompletDure`. Only model-checked: the
liveness properties, which rest on ENABLED. TLC also checked each inductive invariant above on
the instance of its run before it was proved.

## 6. What the code does not do

| Run | Violated | Said at | What happens |
|---|---|---|---|
| `calcul_exclusion` | `ExclusionMutuelle` | calcul.c:57 | a waiting process answers at once, so two processes count N REPLYs and are both in the "Section critique" |
| `calcul_obtention` | `SectionObtenue` | TODO.md:9-13 | a REQUEST for which the loop finds no slot is never answered; its sender waits for ever |

Other limits of the programs are part of what the passing runs and the assumptions state:

- the insertion of calcul.c:91-104 neither sorts nor keeps every request: the shift stops
  at `j > i + 1`, and leftovers take part in comparisons. The proofs need neither the order
  nor the contents of the array, only the count (the theorem `IndexCorrect`); `PerteExpliquee` says when a
  request is forgotten;
- with ten ports `nbServeurs` is never assigned (`NHypothese`);
- TP1_correction.c:125-126 promises buffers of up to 255 cells; from 129 cells on the count of letters, a
  `char`, is negative when the 129th letter is written, which goes past the end of the shared memory
  (`DebordementAuDela`). `AccesSur`, `Terminaison` and the other proofs are for 3 to 128 cells; no run has 129,
  which would only fill the buffer;
- in `projet/` most failed system calls go unnoticed: `accept` and `pthread_create` (in `main`) are not tested,
  or against a value they never return, the result of `send` is not read, and a worker whose `recv` failed, or got
  nothing, still writes its uninitialised buffer. Each is a failure action of `Demarrage`;
- in TP3 SIGUSR2 before `sigsuspend` is a lost wake-up (`PereFinit`), and the handler of the
  program with the named pipe may run before `descripteur` is assigned and read the
  keyboard (`FilsFinit`);
- in the multi-threaded server an entry is taken before the thread's unit of the semaphore, so
  that the search of leger.c:160-163 may find none and write `connexions[-1]`: the action
  `Deborder`, which `leger_requetes` fires. A SIGINT between the test of `fin` and `accept` does not wake the server before
  the next connection (`perdu` in `ArretAboutit`);
- TP2_correction.c tests `pthread_create` against -1, which it never returns; with a message
  that fills its block of the heap, the size of the next block is displayed after it. The
  student's TP2_thread.c writes in a string constant at its first letter;
- server_fork.c: the child does not exit but goes on with the loop of its father, and the
  father never closes a connection; `…_lourd.c` leaves its children zombies, and does not close
  a connection whose `fork` failed. Clients of these connections wait (`ReponseAboutit`). A child of
  `…_lourd.c` without memory closes without an answer (`FinExpliquee`);
- Serveur-1 catches exceptions outside its loop: a client that dies ends it (`FinExpliquee`);
- trace_server.c tests `log < 0`, never true of a pointer: a log that cannot be opened ends the
  service, which the portmapper goes on naming (`Mourir`); a line whose answer was late is
  logged twice;
- RMI: `bind` fails while a dead server has the name, until the registry stops; a version3
  server rebinds.

## 7. Not modelled

- `TP1_fork_sharedMemory.c` and `TP5_Socket/server_thread.c` do not compile.
- The texts, dates and displays of all programs, when no property is about them; `trace_xdr.c`
  (marshalling), the malformed requests and the TCP transport of `trace_svc.c`, which the
  client of the repository never uses.
- The ORB, the naming service, the registry, the portmapper and the RPC library are external:
  `Nommage` and `Datagrammes` model them from how the code uses them.
- The reading of `serveurs.conf` (main.c:117-137, calcul.c:29-37): with at most nine ports it
  determines `nbServeurs` and has no other state; with ten `nbServeurs` is read uninitialised and no
  behaviour is left to state a property of (`NHypothese`).
- `client.c` as committed connects to another path than `server_fork.c` listens on, and is
  always refused; `Serveurs` gives it the server's path.
- In `Demarrage`, failures of `pipe`, `malloc` and of `read` and `write` on a pipe. The descriptor that `serveur.c`
  leaks when `pthread_create` fails: one more call that fails later, in `Demarrage`; `Transport` has the dropped
  message only.
- In TP3, a pipe that is full: the checked texts are far below its 64 kB, and beyond that the parent would block
  in `write`, which breaks no safety property.
- In TP2, what `malloc` leaves in `chaineAEnvoyer`: `strcat` starts at the first 0 it finds there, taken to be the
  first byte, as in fresh memory; the final 0 it writes one byte past the block is not modelled.
- In `Datagrammes`, the steps of starting the service: `Lancer` is `pmap_unset`, the socket and `svc_register`
  at once, and requests sent again to the old port reach the new server.
- Losses between machines: the datagrams of the programs stay on one host, where a full or
  absent socket loses them but nothing reorders them.

## 8. Plan

1. Done: all components but the two that do not compile; every safety property of the passing runs
   and every refinement proved.
2. Next: the composition `Projet`, the loop of `Calcul` over the queues of `Transport`, refining `Calcul`
   through `Canal`. Its states multiply those of both modules, so that it is rather for a proof than for
   a run; the two refinements proved here are the halves of that proof.
3. Then: what `calcul.c` guarantees with `perdues ≠ {}`, beyond why a request was lost.
