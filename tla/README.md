# TLA+ models of the 2021_k8s pod manager and topology service

The repository holds the programs that run telecom applications as pods of a
Kubernetes StatefulSet: `src/k8smgr`, the manager of a pod, and `src/topo`, the
daemon that tells every pod who the others are, with the libraries they use and
the script that configures a pod.  This directory models them in TLA+, checks
the models with TLC and proves the main safety invariants of the daemons, and
that their linked list, their merge of replies and the vectors of their tables
implement what is built on them, with TLAPS.  Source paths below are relative to the repository's root.

## 1. Inventory

| Component | State | Operations | Talks to |
|---|---|---|---|
| k8smgr supervision (`src/k8smgr/main.c`) | per application `alive_status`, `force_status`; `force_not_ready`, `my_sys_status`; in shared memory `cnt`, `oldcnt`, `retry` | `check_proc_alive` (3 s), `main_tick` (1 s), GET and PATCH of `/live/NAME` and `/ready` | applications through the keepalive segment, kubelet probes, operators |
| k8smgr active/standby pair (`src/k8smgr/main.c`) | `peer_pod_start`, `peer_pod_ready`, HA mode in shared memory, the pod's `status` label | `main_check_peer_pod`, `http_recv_reply`, `main_update_pod_label`, start-up PATCH | the peer's HTTP server, the API server, the services that select on the label |
| topo server (`src/topo`, role `CR_SERVER`, on the OMP) | `node_list` with `heartbeat_tm`; files `associate_config`, `node_info` | `udp_server_proc` (per datagram), `main_tick` (1 s), `init_omp_server` | clients over UDP, IXPC over a System V queue |
| topo client (`src/topo`, role `CR_CLIENT`, in every pod) | `node_list` with `chk_exist_flag`; file `associate_config` | `udp_client_proc` (1 s), `init_omp_client` | the server, the pod's IXPC |
| libs (`src/libs`) | key-sorted doubly linked list; file helpers | `add_element`, `get_element`, `rem_element`, `list_element`, `popen_cmd`, `fopen_read` | used by both daemons |
| dns_util (`src/dns_util`) | the caller's name buffer, a socket per look-up, the records of the last reply | `getHostFirstIpByNameTimeOut` and what it calls: format, query, receive, parse, release | a name server over UDP |
| init_script (`init_script/replace.sh`, `start.sh` in `emg_k8s/configmap.yaml`) | configuration files and their `.tmp` on a volume | copy of the templates, then `$MY_INDEX+...` and the names of pod and set, file by file | the init container; the daemons read the files |
| libfort (`src/libfort/fort.c`, vendored) | tables: vectors of rows and cells, separators, properties, a print buffer | `ft_printf`, `ft_write`, `ft_ln`, `ft_add_separator`, `ft_set_*`, `ft_erase_range`, `ft_to_string` | both daemons print their lists with it |
| proc_a, proc_b | a keepalive counter | `keepalivelib_increase` every second | k8smgr |
| c_script, manifests, packaging, libexternal | - | registry commands, declarative, build, headers of an external library | - |

Every daemon is one libevent loop, so handlers of one process never interleave.
What does interleave: the applications' beats with the manager's checks (shared
memory, no lock); the manager's requests with their answers and with the
answers of earlier seconds; PATCHes with each other on the way to the API
server; a client's wait in `recvfrom` with everything else; restarts of any
process, which find shared memory, files, message queues and labels as they
were left.

The behaviours that are hard: verdicts that depend on counters surviving a
restart; a force window that competes with PATCHes and checks; stale answers
deciding a role; labels applied out of order; datagrams of a pod's previous
life; a reply racing a timeout; a server that forgets everyone; files and
notices that must follow the table in the right order; a traversal whose
callback frees the element it stands on; replies to earlier look-ups; an init
container killed half way through a file; calls that run out of memory after
they changed part of a table.  `PROJECT.json` lists them one by one under
`hazards`.

What makes the components correct:

- *supervision*: a hang is reported in time and for as long as it lasts, a
  working application is not reported, a forced death lasts as announced, and
  the pod comes back;
- *pair*: with both sides healthy the roles are those of `AS_MODE`; when one
  side is not, the other is active;
- *server*: its two files and what IXPC read follow the table;
- *client*: its table is the last reply, its file and its IXPC follow it;
- *protocol*: no entry is ever invented or mixed, and all tables converge;
- *libs*: the list is a set of keys, and a traversal misses none;
- *dns_util*: a look-up ends, and its address is one of the host asked for;
- *init_script*: the files are the templates, filled in once, for this ordinal;
- *libfort*: vectors are sequences, the table a daemon builds is the report it
  means, and what is printed fits its buffer and lines up.

## 2. Modules

```
NodeInfo --> TopoServer --> OmpIxpc --------+
   |             |                           |
   |             +-------> Topo ----> MCTopo +--> MCIxpc
   |             |           ^               |
   +--------> TopoClient ----+               |
                 +--------> PodIxpc ---------+
K8smgr --> MCK8smgr          HaPair --> MCHaPair

What the topo modules take for granted, in one run:
UdpFromTo, ElemList (implements KeyedSet), AssocSync (implements TopoClient)
                                                   --> MCTopoLayers
The parts that stand alone:
DnsName --> DnsUtil, ReplaceScript, FortTable      --> MCTools
FortVector (implements FortSeq), FortTable (implements FortReport),
FortText, FortProps                                --> MCFort
FortBorders --> FortLayout, FortTable again        --> MCFortLayout

TopoServer --> TopoServerProofs --> OmpIxpcProofs (with OmpIxpc)
                                --> TopoProofs    (with Topo)
K8smgr, ReplaceScript --> PodProofs  PodIxpc    --> PodIxpcProofs
UdpFromTo, ElemList, AssocSync --> LayersProofs
FortVector, FortProps, FortTable --> FortProofs
DnsUtil --> DnsProofs
```

A run's module extends what theorems are about (`MCIxpc` extends `OmpIxpc` and
`PodIxpc`, `MCTopoLayers` extends `UdpFromTo`, `ElemList` and `AssocSync`, `MCTools` extends `DnsUtil`,
`ReplaceScript` and `FortTable`, `MCFort` extends `FortVector`, `FortTable` and
`FortProps`, `MCFortLayout` extends `FortTable`), so that TLC and the proofs
share one definition; that is why those modules call their parts `PodStep`,
`SyncInit`, `ElemNext` or `TableInit`.

**NodeInfo.** The association table and the parsing helpers of `node.c`.  The
sorted list with unique keys is a function from names to entries or `None`.  An
entry keeps the fields the code compares, copies between entries, or can lose:
group, both addresses, port.  Formatting and parsing are modelled by what they
do: `sscanf` stops at an empty field (`Scan`), the field orders of a heartbeat
and of a reply line differ, and a group holding only the newline that `strtok`
leaves in a one-character buffer ends a reply line early.

**TopoServer.** The table of the server.  `udp_server_proc` is one action:
parsing, new or kept entry (`NewEntry`; a moved pod keeps its old port), new
heartbeat time.  `main_tick` expels.  `heartbeat_tm` is modelled as an age that
saturates at `AssocClearTm`.  A crash loses the table.  The files are `OmpIxpc`'s.

**TopoClient.** `udp_client_proc` is cut where it blocks: `udp_client_send`
up to `recvfrom`, then `udp_client_recv` or `udp_client_timeout`.  The flag
loop of the merge (clear flags, one look-up per line, remove unflagged) runs
without interruption and is one step, with an operator per function;
`AssocSync` takes it apart again.
`addr_len` is uninitialised in the code, so the call may also fail at once;
`udp_client_timeout` needs no time to pass.

**OmpIxpc, PodIxpc.** Server and client with IXPC, which is not part of the
repository: on a notice it reads `associate_config`.  `notify_to_ixpc` may fail
(`ok = FALSE`) on a full queue at any moment, because other senders share it.
In `OmpIxpc` a handler changes the table and leaves in `todo` what it does next
(`OnUpdate`, `OnExpel`, `OnStart`): file, file, notice, each a step of its own
(`Continue`), between which IXPC reads, time passes and the server may be
killed.  A crash keeps the files; `init_omp_server` rewrites only one of them.
A file is written in one step.  `PodIxpc` completes the client's handler, which
is killed between the file and the notice by `ClientKilled`.  `Topo` leaves files
of the server and notices out because they do not affect tables.

**Topo.** Server and clients over UDP.  A heartbeat under way is a record with
a flag telling whether the socket it came from is still open; a reply is
delivered only to an open socket.  `ServerRecv` may leave the datagram under
way (a duplicate) and may lose its reply.  `Close` decides whether a heartbeat
outlives its round.

**K8smgr.** The manager, its applications and the keepalive segment.
`check_proc_alive` reads the counter twice, without a lock, and a beat may fall
between the reads; no check then sees that beat.  The segment outlives the
manager, `main_ctx_t` does not.

**HaPair.** The two managers.  A GET and its answer are split into
`main_check_peer_pod`, which fixes the code the peer answers at that moment,
and `http_recv_reply`, which applies it, in any order relative to others.  A
request that fails sets either both fields to -1 (no request object: timeout or
broken connection) or its own field to 0 (request object without a status).
Nothing a side decides is read by the other side, only its health is; a
behaviour therefore follows the decisions of one side (`deciding`, chosen in
the initial state) while both live and die.  Process supervision is reduced to one Boolean per side.

**AssocSync.** The same merge statement by statement: flags are cleared, every
line is looked up and added, replaced or flagged (the lines, one per key, in any
order), what is unflagged goes, and the file is written if anything changed.  The client may be killed between any
two lines.  `IsClient` maps it to `TopoClient`: everything up to the removal of
the unflagged is a stuttering step, and the removal is the merge.

**ElemList, KeyedSet.** The list of `libs/elem.c` with blocks of memory that
`malloc` hands out again, both pointers, and `list_element` cut into one step
per callback; a callback may free the block it is called for.  It implements
`KeyedSet`, the set of keys that `NodeInfo`'s tables take it for.

**UdpFromTo.** `udp_fromto_init`, the wildcard `bind`, `udp_recv_fromto` and
`udp_send_fromto`: which local address a reply leaves from on a host that has
several.  Start-up is a sequence of steps between which datagrams arrive.

**DnsName, DnsUtil.** Host texts, labels and compressed names as bytes and
offsets, each loop of the code a recursive function with an operator for one
turn of it; a caller that re-uses its buffer, one socket per look-up that is never
closed, a server that points back into its reply wherever it may, a network
that loses and delays.  Receiving and parsing are one step, as nothing comes
between them; the allocations of `ReadName` and what `clearParseResult` frees
are counted.

**ReplaceScript.** `start.sh` and `replace.sh` command by command, the inner
loop line by line.  The volume outlives the container; a crash keeps `.tmp`.

**FortVector, FortSeq.** Size, capacity and block of `vector.c` with `realloc`
that fails and then leaves `NULL` for the block, with size and capacity as they
were.  The code looks at no pointer before it copies; an operation whose copy
would leave a block, or start from or end in none, sets `fault`, which is the end.
It implements a sequence whose items are the caller's but for a gap after an
insertion beyond the end or a failed growth.

**FortTable, FortReport.** Rows, cells, separators, cursor and adding strategy
under all editing calls.  A call that has no memory for an item leaves any of the
tables the code may leave then (`..._fails`).  When the growth of a vector of
rows, cells or separators fails, its items are gone (`..._loses`, status
`"lost"`).  That is the end of the model, as nothing is left that the next call,
`ft_to_string` or `ft_destroy_table` could follow without reading through
`NULL`.  Capacities belong to `FortVector`, so here any item that is added may
need the growth.  Under the calls the daemons make it implements `FortReport`:
complete lines, in order, with marks between them, or no report any more.

**FortText.** One `ft_printf`: print, grow, print again, cut; and the functions
that find the n-th line of a cell.

**FortProps.** Defaults, tables, and the vector of records that
`get_cell_property_hierarchically` searches from the cell to the default.

**FortBorders, FortLayout.** The built-in styles and `ft_to_string`: a text is
the widths of its lines, a border or an escape code its bytes, what is printed
a number of bytes and of columns per line.

## 3. Runs

| Run | Checks | Bounds and why they suffice | Distinct states |
|---|---|---|---|
| `k8smgr` | `HangDetected`, `NoFalseAlarm`, `ForceWindow`, `HungReported`, `Recovered` | the manager and one application, hang limit 3 as in the code, force window of 2 checks (the proofs cover 5 and any other); counters modulo 2, one beat told apart between checks: a check only compares for equality | 638 k |
| `k8smgr_no_status` | `NoStatusIsRefused`, violated | as `k8smgr` | - |
| `ha_pair` | `Settles`, `FailsOver` | `AS_MODE` AS, either side decides; two faults of any kind, several answers and two PATCHes under way, so that each can overtake another | 274 k |
| `ixpc` | `AssocFileCurrent`, `NodeFileCurrent`, `IxpcBehindOnlyOnExpelled`, `PodTypeOK`, `PodFileCurrent`, `AddressesOfLastReply`, `PodIxpcCurrent` | server: two pods, one with four reports (other port, other node, other pod address and port); expulsion after 2; `TopoMaxList` 3 so that the third entry is cut off; a queue of two, kills between any two steps; client: replies that add, move, re-port and drop a neighbour, OMP group empty or newline, kills between file and notice | 399 k |
| `topo` | `Integrity`, `Convergence` | two pods, one may come back on another node; one restart, stop or crash; heartbeats of open rounds lost, duplicated and late | 95 k |
| `topo_live` | `Convergence` | nobody moves; one heartbeat of a closed round under way beside the open ones | 98 k |
| `topo_port` | `DifferingInfoReplaced`, violated | one pod restarts with another base port | - |
| `topo_layers` | `RepliesFromAskedAddress`, `Linked`, `WalkVisitsAll`, `IsKeyedSet`, `IsClient` | socket: two clients routed differently, two local addresses, a queue of two; list: four keys and four blocks, so that freed blocks return; merge: three pods, 30 replies, empty and newline groups | 399 k |
| `tools` | `QueryAsksForHost`, `ParsedAsSent`, `AddressOfHost`, `OnlyAliasesLeak`, `LookupReturns`, `Configured`, `SeparatorsFollowRows` | two hosts (one and two labels), timeouts of 10 ms and of a second, four look-ups with three descriptors, replies with 0 to 3 answers where the array holds 2; two files with every kind of word, three crashes; edited tables of up to two rows of two cells and three separators, the cursor anywhere in or behind them, both strategies, any call out of memory: in each state every range of whole rows is erased, so that one pass of the loop erases and the next steps on | 162 k |
| `replace_usage` | `UsageExample`, violated | the three words of the usage text, index 2; the other parts as small as they get | - |
| `fort` | `RoomForItems`, `IsSequence`, `NoHole`, `RowIsFormat`, `LinesPrintable`, `Returns`, `SetTakesEffect`, `SetIsLocal` | vectors up to capacity 3; tables up to 2 by 2 with one separator, appended to in both strategies, any call out of memory, any growth failing; up to three values of two characters in a buffer of 2, so that it doubles up to three times; one row and column of properties, a number that may be refused and a choice in two tables with two records, a choice and a style in one | 188 k |
| `fort_layout` | `Fits`, `Aligned`, `IsReport` | two rows of up to two cells, any of them spanned over two columns: all built-in styles and three of a caller's with margins, header rows and texts of two lines, printed once; printed again and again: titles wider than the two columns they span; titles wider than the escape codes of a column, above or below cells with colours or without, and a minimal width; the daemon's report up to 4 rows of 2 fields, one with a separator in it, any call failing half way, any growth failing | 123 k |

`ixpc`, `topo_layers`, `tools`, `fort` and `fort_layout` each check several small
instances at once: the first variable says which part a behaviour is about, the
parts share no state, and the other parts stand still.  Four properties are
refinements: `IsClient`, `IsKeyedSet`, `IsSequence` and `IsReport` are the
specifications of `TopoClient` (one pod), `KeyedSet`, `FortSeq` and
`FortReport` under a mapping.

What the three violations show:

- `k8smgr_no_status`: `PATCH /live/NAME` without `status` sends the 503 its
  comment announces, does not return, and passes a null pointer to `atoi`.
- `topo_port`: a client whose neighbour restarted with another
  `ixpc_base_port` keeps the old port as long as both addresses stay, although
  the reply carries the new one and the comment says "if key same but info
  diff, replace node".
- `replace_usage`: the usage text (`replace.sh:7`, `configmap.yaml:158`)
  announces 0x700D for `$MY_INDEX+0x700A` with index 2; the script adds, as it
  does to decimal numbers, and writes 0x700C.

Readings of properties that hold:

- `NodeFileCurrent` has an exception the code really has: between a restart of
  the server and the first pod it hears, `node_info` shows the previous run.  It
  says what the file shows, cut off behind `TOPO_MAX_LIST` - 1 entries, without
  the operator that writes it.
- `IxpcBehindOnlyOnExpelled` is as strong as the code allows: the tick that
  expels pods does not notify IXPC, so IXPC can keep pods that are gone; and a
  server killed between file and notice leaves pods in the file that IXPC hears
  of only when the server has started again, has rewritten the file with the OMP
  alone and has heard the pods anew.  The property is about the time when no
  handler is under way or cut off.
- `FailsOver` claims the loss of the active label only for a side whose manager
  runs; nobody removes the label of a dead manager.
- `AddressesOfLastReply` is about names and addresses, not about ports; the port
  is `DifferingInfoReplaced`, which does not hold.
- `LookupReturns` is about timeouts of 1 to 999 ms.
- `RoomForItems` allows a copy outside a block only after a growth that found no
  memory; `NoHole`, `SeparatorsFollowRows` and `IsReport` reach up to the first
  such growth.
- `Fits` has one exception, the crowded table: the title of a group is wider than
  the columns it spans, and a cell of another row in them is coloured.  The size
  of the buffer then counts the columns before they are widened
  (`fort.c:7124`), and `ft_to_string` may return `NULL`.  The daemons colour
  nothing.
- `Aligned` is about even styles (`Even`): every character of a border that
  stands in one column is as wide, or as absent, as the others.  All built-in
  styles are even for tables without groups.  With a group, `EMPTY_STYLE` is not:
  its vertical separator is empty, yet a group counts one column for it
  (`fort.c:6142`), so the row with the group is wider.  A caller's style
  without a line below header rows is not either, because that clears the side
  characters of the other rows (`fort.c:3531`).  One of the three of the run is
  of this kind, and TLC evaluates which styles are even (`EvenStyles`).

The models show more behaviours of the code worth knowing, for which there is
no run of their own; each is seen by changing the instance as said.

- A DNS timeout of 1000 ms or more is refused by `setsockopt` (`tv_usec`,
  `dnsUtil.c:203`) and a look-up whose reply is lost waits for ever; the run has
  such look-ups, `LookupReturns` excludes them.
- `ft_erase_range` with a left column more than one beyond the end of a row
  that is not empty wraps round at `fort.c:5388` and never returns (status
  `"hung"` of `FortTable`); `FT_CUR_COLUMN` is replaced by the current row
  (`fort.c:2847`).
- A value with a `|` makes `ft_printf` refuse a line of several cells
  (`fort.c:6047`, `Rejected` in `RowIsFormat`), and a long wide line is refused
  because `vswprintf` returns an error and no length (`fort.c:6000`;
  `W_CHAR_BUF` in `Types` breaks `RowIsFormat`).
- New default properties reach tables that exist already (`fort.c:4513`,
  against `fort.h:851`), and a refused value still marks its property as set
  (`fort.c:4648`); `SetTakesEffect` is about accepted values.
- A failed `realloc` overwrites `m_data` (`fort.c:7242`): rows, cells or
  separators of the table are lost, 10 of them at the default capacity, and what
  follows reads or copies through `NULL` (`fault` of `FortVector`, `"lost"` of
  `FortTable`).

Fairness.  *K8smgr*: persistent libevent timers fire, kubelet restarts a dead
manager, a working application keeps beating; nothing obliges anyone to hang,
resume or send a PATCH.  `Timely` states the rate: beats come every second,
checks every three, so a working application does not stay silent for
`MaxMiss` checks.  *HaPair*: timers fire, and an answer or PATCH that is not
lost arrives; the number of losses is bounded by `MaxFaults`, nobody is obliged
to recover.  *Topo*: timers fire, a dead server is restarted, time passes; of
the network, a pod that sends for ever is heard and answered again and again
(strong fairness), and no old datagram is under way for ever.  A `recvfrom` that
fails each and every time, which the uninitialised `addr_len` (`udp.c:217`) would
permit, is outside this assumption, and no property is about it.  `Convergence`
assumes in addition that from some time on the server has every running pod:
heartbeats come 60 to an expulsion in the code, which the models' ages of one
or two seconds do not reproduce.  *DnsUtil*: a kernel timer that was set goes
off; nothing else is assumed, neither of the network nor of the server.
*FortText*: a call that has begun goes on.  The other modules state no fairness.

Deadlock is checked except where the instance ends: `tools` and `replace_usage`
(the caller stops after its look-ups, the script when it is done), `topo_layers`
(the clients of the socket stop), `fort` (a table at its bounds, or one that
lost its items) and `fort_layout` (a report that was lost, a framed table that
has been printed).

## 4. Proofs

All theorems hold for every value of the constants that the `ASSUME`s of the
modules allow.

**PodProofs** proves `TypeOK`, `HangDetected`, `NoFalseAlarm` and
`ForceWindow`.  None is inductive: a verdict is right because of the retry
count.  The invariant adds that the retry count trails the number of silent
checks by at most one (`RetryTracksQuiet`), that a verdict is the retry count's
(`VerdictIsRetry`), and what `force_status` counts and who may have written
`alive_status` meanwhile (`ForceCounts`).  `IncreaseMoves` shows that the bound
on beats never makes a beating application look silent.  The same module proves
`Configured` for any templates, ordinal and number of runs of the init
container.  The invariant `Progress` says what is on the volume at each command:
the files before the current one are final, those after it templates, and the
inner loop has rewritten the lines it has read.  Nothing is said of the volume
before `start` has copied the templates, which is why a kill anywhere does no
harm.  `WordFacts` is the rest: the three substitutions, one after the other,
never rewrite what an earlier one wrote.

**OmpIxpcProofs** proves `AssocFileCurrent`, `IxpcBehindOnlyOnExpelled` and
`NodeFileIsListing`, of which the run checks the reading `NodeFileCurrent`.  The
steps of a handler are apart, so the invariant (`IInv`) says for every rest of
every handler what holds before it: which files are still old, and that the notice is
still to come as long as IXPC may have read too early.

**TopoProofs** proves `TypeOK` and `Integrity`.  The invariant extends
`Integrity` to what is under way: heartbeats carry what their pod reported at
some time, replies are tables made of reports.  It covers any number of pods,
datagrams, duplicates and restarts.

**TopoServerProofs** holds what the last two share.  The type invariants of
`K8smgr`, `OmpIxpc` and `Topo` are part of the invariants above; they are proved
and need no run.

**PodIxpcProofs** proves `PodTypeOK`, `AddressesOfLastReply`, `PodFileCurrent` and
`PodIxpcCurrent`, for any pods, reports and replies.  The last two rest on the
first: a round that changes nothing writes and sends nothing, which is right
only because table and reply then agree already.  They hold across kills between
file and notice, since a client that starts again has an empty table.

**LayersProofs** proves `Linked`, `WalkVisitsAll` and `IsKeyedSet` for any keys
and any blocks of memory.  The invariant is a sequence of blocks that the
pointers run along, both ways (`LinkedAlong`), on which the keys rise
(`SortedAlong`); every other block, free or lost, points nowhere.  That a
recursive traversal then ends, and with what (`ChainIs`, `TargetIs`), is proved
by induction on a set of natural numbers (`SetInduction`, from the library's
well-founded orders).  `InsertChain` and `RemoveChain` are what `insque` and
`remque` do to such a sequence, and `StandsAt` says that what a traversal has
seen and what lies before it are what there was when it began.  The same module
proves `RepliesFromAskedAddress` for any clients, addresses, routes and queue:
no datagram without its destination is in the queue, which rests on the order
of the steps of start-up.  And it proves `IsClient` for any finite set of pods:
during the loop the table of the client is still the one before it (`before`),
and the invariant `MergeSoFar` says what the flags and the entries are when some
of the lines have been read, in whatever order.  A read name has its flag, and
the reply's entry unless its own already matched; an unread one has its old
entry and no flag.  With no line left, removing the unflagged gives the one-step
merge.

**FortProofs** proves `RoomForItems` and `IsSequence` for any items and any
capacities, from the assumption that a null pointer is not a block.  The
invariant is that both vectors are records with a block of their capacity, or none, and a
size within it, and that a copy has left a block only if one of the blocks is
`NULL`; each operation is then shown to do to the content, item by item, what
the operation on sequences does, or to end it.  A swap is taken apart into its two copies
(`SwapIn`, `SwapBack`), which overlap in neither vector.  It also proves the
action properties `SetIsLocal` and `SetTakesEffect` for any tables, cells,
properties and values, from the assumptions that `ANY` is no index, that a style
is neither a number nor a choice, and that the defaults are typed.  The invariant
is that a table has at most one record for a row and a column (`Unique`): only
then does the look-up, which takes the first, find what a setter wrote.
`SetMeans` says what a setter does to each of the four records a look-up asks.

The same module proves `NoHole` for tables that are only appended to, and
`IsReport` for the table the daemons fill, for any texts, formats and sizes,
from the assumptions that an uninitialised pointer is no cell and that a format
has at least one field.  `NoHole` is not inductive: a cell written beyond the
end of a row leaves the ones between uninitialised.  The invariant `Whole` adds
that the cursor never stands beyond the end of its row, which every call has to
keep in all its outcomes, those that ran out of memory half way included; a row
of cells (`ft_row_write`) is written by induction on how many are left.  With
`~Editing` in the hypotheses callers neither move the cursor nor erase cells:
if they do, the cursor can leave its row.  For `IsReport` the invariant `Filled`
says that between two calls the cursor is at column 0 of a row that is not
there yet or was left empty by a failed call; only then does writing a row, which
replaces what it meets, add a line to the report, and a failed one add nothing
that shows.  Both hold up to the first failed growth of a vector: `LostIsLast`
says that nothing follows it, so the invariants need only hold until then, and
`LossIsScarce` maps it to the loss of the report.

**DnsProofs** proves `QueryAsksForHost`, `ParsedAsSent`, `AddressOfHost` and
`OnlyAliasesLeak` for any hosts, addresses, answers, retries and late replies,
from `DnsAssumption`: labels have 1 to 63 characters, and no name of a reply,
with an alias put in front by each of its records, exceeds the 255 bytes
`ReadName` allocates.  The argument is about what loops compute.  `Laid` relates
a name to its bytes on the wire and to its text, which end at the same offsets;
the recursive functions are shown to pass through the states one expects by
induction on a set of numbers (`SetInduction`).  `WireFacts`:
`ChangetoDnsNameFormat` puts the labels on the wire, and the dots of earlier
calls become empty labels behind the 0 that ends the name, so that `strlen` cuts
them off.  `LabelsAtFacts`: the server reads them back.  `Reads` says how many
turns `ReadName` needs behind a pointer, whatever it has collected before, which
makes chains of pointers compose; `DottedFacts` converts what it collected to
text.  `ChainFacts` builds a reply record by record and keeps that everything in
front of a record stays readable; `ParseRecordFacts`, `SectionsFacts` and
`ReplyFacts` take it apart again.  The inductive invariant `DnsInv` ties a
datagram to its socket: what is under way to the socket of the waiting look-up
is about the name in the caller's buffer, because every look-up opens a socket
no datagram under way can know.  That is all that keeps a late reply from being
taken for the next one's.

**Erasure.** The last section of FortProofs proves `SeparatorsFollowRows`
(`ErasureKeepsSeparators`) for any texts, formats, spans and sizes, of tables
that callers edit as they like.  They end, as above, with the first failed growth.  Two things have to be shown.  Every call, failed
or not, leaves a table of rows and Boolean separators wherever the cursor stands
(`TablesOf`; a row may then hold an uninitialised pointer, so `LooseTables`, of
cells or holes, is the inductive invariant).  And the loop of `ft_erase_range`
removes what it should while the indices shift under it: its invariant `Swept`
says that after j passes the separators are those of the table before, read
through a strictly increasing enumeration that skips the rows erased so far,
that i stands behind the rows kept, and that what lies from i on has not been
touched.  `KeptIs` identifies such an enumeration with the one the property
names.  The two vectors may have different lengths, which is why a removal of
the separator is guarded in the code.

Only model-checked: all liveness properties (`HungReported`, `Recovered`,
`Settles`, `FailsOver`, `Convergence`, `LookupReturns`, `Returns`), which need
fairness; texts and layout of libfort (`LinesPrintable`, `RowIsFormat`, `Fits`,
`Aligned`), whose folds over structured data the provers do not unfold.

## 5. Not modelled

- k8smgr: URI decoding and 404 routing, `/print/status`; start-up that fails for
  want of a variable or a file (the process exits before it has state);
  `AS_MODE` with more than two replicas (`main.c:629` would read past its end).
- topo: files that cannot be written; the byte size of a reply against
  `TOPO_MAX_BUFFER`; a wall clock that jumps.
- dns_util: the size of the caller's buffer, to which every retry appends a dot;
  replies that are malformed, and records beyond `MAX_RES_RECORD_CNT`
  that other sections follow (what the code then reads depends on bytes).
- libfort: what happens to a table after the failed growth of a vector; the
  code points of wide and UTF-8 text (a text is its characters or
  its widths), the rows of `ft_copy_table`, allocation failures in the setters
  of properties, and a print buffer that changes its type between two prints
  (`fort.c:3329`); the daemons print `char` tables only.
- `c_script` (interactive registry commands), manifests and packaging have no
  state or behaviour of their own; `libexternal` are headers of a library whose
  code is not here, modelled from its use.

## 6. Plan

Done, in this order: supervision, table and server, client, protocol, pair;
then the list, the merge and the socket below the protocol, the stand-alone
tools, and libfort.  Next:

1. Proofs: `RowIsFormat` of the texts of a table.
2. `Directory`: an abstract specification of the topology service (who is
   registered, where) that `Topo` implements.
3. Kubelet: liveness and readiness probes driving restarts of containers, above
   `K8smgr`.
