# Verification of NES Open Switch

NES Open Switch is the control and management plane of a network switch: a set
of modules (interfaces, Ethernet bridging, link aggregation, spanning tree,
routing, MPLS, ...) in one process. Each module keeps its state in the tables of
its SNMP MIBs, an SNMP agent reads and writes those tables, and a small library
gives them a balanced tree, index pools, threads and messages. This directory
holds TLA+ models of the parts with logic of their own, the TLC runs that check
them on small instances, and TLAPS proofs for every value of the constants.

    tlc -workers 2 -config MCFreeRange.cfg MCFreeRange     # a run
    tlapm FreeRange_proofs.tla                             # a proof module

Contents: [Inventory](#inventory) - [Plan](#plan) - [The modules](#the-modules-and-the-code) -
[Runs](#runs) - [Bounds](#bounds) - [Fairness](#fairness) - [Proofs](#proofs) -
[What is only model-checked](#what-is-only-model-checked) - [What is not modelled](#what-is-not-modelled)

## Inventory

The repository has 79 `.c` and 141 `.h` files, about 143,000 lines of C. Most of
it is the repeated code of some 300 SNMP tables and groups of scalars; outside the `*MIB.c` files there
are some 10,500 lines. Much is unfinished: the hardware layer returns
constants, most protocol machines are empty functions that return `false`, and
several paths cannot be taken yet (named below).

**How it runs.** `main` (`switch_main.c`) calls every module of `aoModuleList`
with `ModuleOp_init_c` and then with `ModuleOp_start_c` (snmp, system, if,
entity, hal, ethernet, lag, bridge, cfm, isis, stp, spb, inet, ted, mpls,
tcpUdp), and sleeps. Start creates the module's thread with `xThread_create`,
and, for LACP and STP, its message queue. The SNMP thread loops in
`agent_check_and_process`; all configuration runs in it. The other threads wait
for messages.

| Component | State | Operations | Meets other components through |
|---|---|---|---|
| Red-black tree, `lib/binaryTree.c` | root, count, the pointers and colour in each node | add, remove, find, find-next, first, next | embedded in every row of every table; freed and allocated by `lib/buffer.c` |
| Index pool, `lib/freeRange.c` | a tree of ranges `u32Start..u32End` | create range, first free index, allocate, remove | interface table, bridge components, object resources |
| Threads and messages, `lib/thread.c`, `lib/message.c` | thread register, one lock, condition and flag per thread; per queue the lists tx, rx, ack; per message its destinations and count of readers | create, register, wait; send, receive, acknowledge | the loops of `lacp_main.c` and `stp_main.c` |
| Lists, buffers, bitmaps | links and counts | push, pop, remove, test, set | everywhere |
| Numbers, addresses, time, log | none | conversions | everywhere |
| SNMP tables: 309 mappers. 106 only read, 66 write to fixed rows, 20 to scalars; 97 create rows at COMMIT as `inetCidrRouteTable` does, 13 by a handler in ACTION, 7 by setting any column | a tree of rows; per request the net-snmp data list | createEntry, getByIndex, getNext, removeEntry, `*_mapper` per phase | the agent calls the mapper; status handlers call other modules |
| Interface table and stack, `if/` | rows with type, status, count of references; stack rows (higher, lower) | create, remove, reference, activate, stack create and remove, status propagation | references held by ports, aggregators and addresses; per-type functions |
| Cross-connects, `if/neXcMIB.c` | rows | table operations | none |
| Bridge components and ports, `ethernet/ieee8021BridgeMib.c` | components, base ports, physical ports, index pool | create, remove, status update | interfaces, VLANs, hardware layer |
| VLANs, FDBs, learning constraints, `ethernet/ieee8021QBridgeMib.c` | VLANs, filtering databases with a count of VLANs, constraints | create, remove, join | bridge components |
| Provider bridges, `bridge/` | provider ports, VIPs, PIPs, service instances, internal LANs | create, remove | bridge and interface tables |
| Ethernet services, `ethernet/mef*.c` | rows | table operations | none |
| Link aggregation, `lag/` | aggregators and member ports; LACP machines | create, remove, attach, select | interface table; LACP thread |
| Spanning tree, `stp/` | bridge and port tables | table operations | bridge components; STP thread |
| Hardware layer, `hal/` | none | stubs that return a constant | called by the status handlers |
| System and entity, `system/`, `entity/` | object resources, physical inventory | create, remove | index pool |
| IP and addresses, `inet/` | routes, addresses, prefixes, neighbours | table operations, address create and remove | interface table |
| TCP, UDP, IS-IS, SPB, MPLS, TE, CFM | rows | table operations | mostly none |
| SNMP agent, `snmp/` | the agent's own tables | start, loop | net-snmp, external |

**What is hard.** In the library: the order of pointer writes in the tree, the
ends of ranges, and a thread that sleeps on a message. In the tables: a request
of several variables that fails after some of them were carried out, and row
pointers that are looked up once and used through five phases. Between the
tables: references that are counted by hand, undo code that takes back what was
not done, locks that are held across calls. The list, each at its line and with
the properties that watch it, is under "hazards" in `PROJECT.json`.

**What makes the components correct.**

- Tree: balanced, ordered, holds what was added and not removed, every look-up
  and scan agrees with that, no null pointer is followed.
- Index pool: an index is given to one row at a time; ranges do not overlap; no
  more indices are lost than the code's own arithmetic loses.
- Messages: a thread does not sleep on a message or an acknowledgement; an
  acknowledgement means that all have read; what is sent is read and comes back.
- SNMP tables: a request changes a table as a whole or not at all; a row that is
  missing or freed is not used.
  GET shows the old value again after a refused one. A walk shows each row that stays.
- Interface table: who holds an interface finds it, with his reference counted,
  through calls that fail half-way and are undone.
- Stack: a row joins interfaces that exist, with 0 only where there is no
  neighbour.
- Bridge, VLANs, aggregation: counts agree with the rows that they count,
  creation and removal are inverse, an undo takes back what was done.

**Paths that the code cannot take yet.** They are why some components wait:

- No interface becomes active: `neIfRowStatus_update` looks up the functions of
  type `i32Type` (`if/ifUtils.c:585`), which is 0 in a new row and is assigned at
  line 599. `ifTable_createReference` with activation therefore fails, and so do
  the creation of aggregators and of several bridge ports. Stack rows never
  become active either (`if/ifUtils.c:646` compares a type with itself).
- No interface row is ever removed: whoever removes one deactivates it first, which
  fails in the same place. Nor does a manager make one: RESERVE1 of
  `neIfTable_mapper` (`if/ifMIB.c:3083`) takes the address of a part of the row,
  which is not null where there is no row, and so refuses every creation.
- No bridge component leaves `notInService`: the hardware stubs return `false`.
- VLAN creation (`ieee8021QBridgeVlanStaticTable_handler`,
  `ethernet/ieee8021QBridgeMib.c:5144`) and the default learning constraints have
  no callers, nor have `xMessage_allocate`, `xMessageDst_create` and
  `xMessage_send` outside the library.
- Creation of a PIP always fails (`bridge/ieee8021PbbMib.c:1572`).

## Plan

Done, in this order: every table rests on the first two, and every request goes
through 4 and 5.

1. `FreeRange` and `IndexPool`, with proofs.
2. `BinaryTree`, with proofs.
3. `MessageQueue`, with proofs.
4. `RouteTable` and `AtomicSet`, with proofs: one table, requests over several rows.
5. The catalogues over `Tables`, one operator for what each phase of each mapper
   does, and the two modules that run them: `TableSet` and
   `TableWalk`, with proofs. The mappers of all modules are some 95,000 lines in which a slip of one
   column shows only when a request fails.
6. `IfTable`: the interface table with its references, and the stack, with proofs.
7. `IpAddress`: addresses as clients of `IfTable`, whose calls it makes, with proofs.

Left, in the order of what it would add:

8. `BridgePort`: the creation, the undo and the removal of base ports and of VIPs, as
   clients of `IfTable` (hazards `ethernet/ieee8021BridgeMib.c:1339`,
   `bridge/ieee8021PbbMib.c:519`). No base port becomes active yet: the stubs of the
   hardware layer return `false` (`hal/halEthernet.c`), and the update of its VLAN part
   refuses what the hardware layer has accepted (`ethernet/ethernetUtils.c:1314`).
   Only failing creations could be checked today.
9. `VlanFdb`: FDBs, their count of VLANs and the constraints that name them. The
   handlers that would create VLANs have no callers yet.
10. `SList`: `lib/list.c` as a refinement of a sequence.

## The modules and the code

`PROJECT.json` ("map") names the lines of every definition.

### IndexPool, FreeRange: `lib/freeRange.c` and its use in `if/ifMIB.c`

`oRange` is the tree `oIfIndex_FreeRange.oRange_Tree`: the linked entries with
`u32Start` and `u32End`; `rows` are the indices of the rows of the table. The
operations of the pool (`CreateRange`, `FirstOf` for the first free index,
`AllocateIndex` with `TakeFrom`, `RemoveIndex` with `GiveTo`) are operators that
give the set of their outcomes, because equal keys may be met in either order
and memory comes from any cell. Actions are the callers: `CreateExt(i)` is
`neIfTable_createExt` with its undo, `CreateAny` the choice of an index by
`ifIndex_zero_c`, `RemoveExt(i)` is `neIfTable_removeExt`. Arithmetic is that of an
unsigned integer with `U32Max` as its largest value (`Inc` and `Dec` wrap).

The code does odd things and the model does them too. Freeing the index just
below a range pushes `u32Start` up instead of down: that index and the next one
are lost, and a range of one index becomes empty. A split that finds no memory,
or finds an empty range with the key of the upper part, has already cut the lower
part: the upper part is lost. A failed creation frees the index that it could not
get. All this loses indices and gives none out twice, which is what
`NoDoubleAllocation` and `KeepsPromise` say, and `BoundedLoss` says how many are
lost at most.

`IndexPool` is the promise: `Reserve`, `Release` and `Reclaim` of an index, free
indices may be lost, an index is never free and used.

One thing is outside this module. Where the key of an entry changes, the code
takes the entry out of the tree and adds it again with its old child pointers;
`BinaryTree` shows with the run `binary_tree_readd` that this damages the tree
when the entry was not a leaf. `FreeRange` is about the arithmetic, on a tree
that keeps its contract.

### BinaryTree: `lib/binaryTree.c`

The variables are the fields of the tree and of its nodes under their own names;
`red` is the colour. Every rebalancing function is an action and `pc` is the
function that runs next: the code calls one from the other in tail position,
except that `xBTree_RB_removeChildCheck` unlinks the node at the end, with the
child that it read before (`pOut`, `pChild`). `Add` and `Descend` and `LinkLeaf`
are `xBTree_nodeAdd`, `Remove` is `xBTree_nodeRemove` up to the rebalancing with
`nodeSwap`, `RemoveUnlink` its end. `fault` is where the code would follow a null
pointer. The look-ups are functions of the tree between two calls.

With `FreshNodes` a removed node comes back zeroed, as after `xBuffer_free` and
`xBuffer_cAlloc`: what tables do. Without it a node comes back with its pointers,
as in `xBTree_nodeUpdate` and `xFreeRange_allocateIndex`.

### MessageQueue: `lib/thread.c`, `lib/message.c` and the loops of LACP and STP

A step runs from one point where another thread can get in to the next. `pc[t]`
is the place of thread t; a thread holds its `oLock` exactly in `drainAck`,
`drainRx` and `ackSource`. `Start` is the module's `ModuleOp_start_c`, `Register` is
`xThread_taskInit`, `FirstWait` the first `xThread_wait`, which does not look at the
flag. `Resume` to `Park` is the loop: acknowledgements, then messages
(`Receive`, with the first half of `xMessageDst_remove`), then, for the last
reader, the source's list under the source's lock (`AckSource`), or nothing when
the source has no thread (`GiveUp`). `BeginSend`, `Deliver` and `EndSend` are
`xMessage_allocate`, `xMessageDst_create` and `xMessage_send`, one destination at a
time. `drained` is a history variable: the thread has parked with its lists read.

Assumptions of the model, in its header: a message is sent from a context that
holds no `oLock` and one context at a time sends from a queue, because `oTxList` is
pushed without a lock and no caller shows another use. No two threads acknowledge
each other's messages in the run: with two that do, each waits for the other's
lock while it holds its own (hazard `lib/message.c:366`).

### AtomicSet, RouteTable: `inet/ipForward.c`, the pattern of the SNMP tables

`status` and `cell` are the rows of `inetCidrRouteTable` (`"none"` where there is
none), `request` the variables of a SET request, `phase` is `reqinfo->mode`, `i` the
position of the loop over the requests, `entry` whether a variable has a row in
its iterator context, `buffer` what `ROLLBACK_BUFFER` holds. One action per phase
is one turn of that phase's loop; `Refuse` is an error with `return`, `error` one
without. The agent is net-snmp, external, modelled from its use: rows are looked
up once (`Begin`), a row that RESERVE2 makes is handed to all variables of the
request with its index (`netsnmp_insert_iterator_context`, `ipForward.c:582`), so that one
request can make a row and set its columns, the phases follow each other as in
`Following`, any other table in the request may make a phase fail (`Return`), data is
freed at the end (`Finish`).

Kept as the code has them: RESERVE1 checks each column against the type of the
first variable (`requests->requestvb` at `ipForward.c:492`), the missing row is
reported at the end of a turn of RESERVE2 and the loop goes on, ACTION and COMMIT
do not test the row, FREE removes the data of a new row from the agent's list,
which leaves the row alone. Not kept: columns that may only be read (RESERVE1
refuses them always) and `u32InetCidrRouteNumber`, which nothing updates.
A row status that follows the destruction of its row in the same request writes
to freed memory (hazard `ipForward.c:858`); `Requests` leaves it out. UNDO writes to
freed memory too: it frees a new row at the turn of the variable that made it (825)
and then copies the old values of the columns of that row, set in the same request,
into it (797 and on). The model keeps these requests, takes the write to change no
row, and `NoDangling` names it as the only use of a freed row.

`AtomicSet` is the promise to a manager: asked for something, the table does the
whole of it or, refused, nothing, and shows nothing before the answer. A request may
make a row and set columns of it, named after the creation. A request
that names a variable twice is ambiguous and promises nothing (UNDO puts values
back from first to last, so it would leave the first new value).

### Tables and the catalogues: the 309 mappers of the `*MIB.c` files

`Tables` is a vocabulary, and the catalogues say each table in it:
`BridgeTables`, `VlanTables`, `EthernetServiceTables`, `ProviderBridgeTables`,
`CfmTables`, `IfTables`, `InetTables`, `LagStpTables`, `IsisTables`, `MplsTables`,
`TeTables`, `SystemTables`, `SnmpTables`. A table `T` has up to four operators,
each mapped to the lines that it stands for: `T_Index` (the key as it is
registered, compared, named and found), `T_Read` (each column as GET shows it),
`T_Check` (RESERVE1, RESERVE2 and FREE: types, sizes, which rows a SET makes,
which columns an active row freezes) and `T_Write` (ACTION, UNDO and COMMIT: where
each column is written, in how many bits, and how it is put back). Tables that
are alike still have an operator each: the slip of one column is what the
catalogue is for. The slips that the code has are in the vocabulary too, for
example `"uncounted"` (octets whose old length is not stored, so that UNDO puts none
back) and `"strayed"` (an old value that is put back from the wrong place).

### TableSet: a SET request on a row of any table

`table` is the catalogue's record of the table. `request`, `mode`, `i`, `error` and
`buffer` are as in `RouteTable`, for one row; `context` is the row that the variables
have in their iterator context. Where the status handler runs in ACTION
(`T_Check` says `"handler"`) ACTION has a second loop over the request, the mode
`"handle"`. `fault` is memory that the code misuses: a missing row whose fields are
read, a column written through a stray pointer, a freed row, a value of another
type than its column. `Reserve1`, `Reserve2`, `Action`, `Handle`, `Commit`, `Undo`
and `Free` are one turn of the loop of their phase; `Refuse` is the error that ends
a loop, and between phases the mapper of another table may report an error.

Kept as the code has them: which mappers check the type of the first variable
only; columns that ACTION truncates; tables whose rows are a part of another
table's row (`context` is `"parent"`), which answer for a missing row with an
address that is not null, and therefore make none; frozen columns, tested in
RESERVE2 and not again in ACTION; rows that scalars and columns make without a
status; a row that `removeExt` will not remove, whose result COMMIT, FREE and UNDO do
not look at (`MayRefuse`: such a table may keep the row of a destroy, and the new row of
a refused request, which `RolledBack` excuses as `LeftBehind`). `NoOtherFault` lists the misuses that the code can reach, by table; none other
is.

### TableWalk: GETNEXT

`entries` are the keys of the rows in the table's tree from left to right, `last` the
name that the manager asks for the next of, `seen` what he was answered. A step is one
request, or a row made or removed between two. A key is compared with another as
`T_BTreeNodeCmp` does, part by part as `T_Index` says; names are ordered by the agent.

`T_BTreeNodeCmp` tests for -1. For numbers it returns that itself; `xOidCmp`
(`lib/snmp.h:111`) returns a difference of identifiers, and so does `memcmp` behind
`xBinCmp` in some C libraries, glibc among them (`Differences`; the run takes it to
be so). Where the difference is below -1 the key counts as not smaller. Such
a comparison is no order, so the model does not say where in an order a row is: it
goes where a search for its key ends (`Ends`), to the right of a row that it is not
smaller than and to the left of one that it is smaller than. Which of several such places it is
depends on the shape of the tree, and the model allows all of them. `RemoveEntry` takes out
any row. GETNEXT goes over the rows from the left up to the first whose name is
beyond the one asked for, as the iterator does for a table that is declared sorted.

`WalkSeesAll` then holds as long as the tree never held two rows whose comparison
exceeds one (`Comparable`): it says so, and `binary_tree_oid` shows the
tree that goes wrong otherwise. For tables whose index is all numbers the exception is empty, which
is the theorem `NumbersMissNone`.

### IfTable: `if/ifMIB.c`, `if/ifUtils.c`

`ifs` are the rows of `oIfTable_BTree` (`neIfTable`'s columns are in the same row),
`stack` those of `oIfStackTable_BTree`, `holds` the interface that a caller keeps,
`pending` the SET of a stack row that is under way. The functions are operators
that return the tables after a call and `ok`, the call's result, so that a failure
half-way, and the undo that follows it, are what the code leaves. `Client` and
`Call` say who calls and with which flags: an aggregator, a VIP, an I-LAN and a
physical port, each as its module calls `ifTable_createReference` and gives back.
`Request` and `Release` are the callers, `SetAdminStatus`, `SetRowStatus` and `SetType` the
manager, `CreateRegister` and `RemoveRegister` the modules that join interfaces,
`StackReserve`, `StackFree` and `StackAction` the phases of a SET of the stack.

What a manager sets `neIfRowStatus` to is any row status; `Accepted` is RESERVE1. It
lets no creation pass: with `table_entry = &poEntry->oNe` (`ifMIB.c:3083`) a row that is not
there passes for one that is active (3144). The `neIfTable_createExt` of RESERVE2 (3186)
and the `neIfTable_removeExt` of FREE and UNDO (3255, 3471) are therefore not reached, and not in the model
(`PartsAreNotMade` says the same of all tables of this kind). The removal in COMMIT of a destroy
(3501) is in the model, and also in `RemoveReference`, with the rows of the stack that go
along; but it comes after a deactivation that `ifUtils.c:585` refuses, so that it never
happens: `RowsStay`. What `JoinsInterfaces` says is to be read with that. It is about
the check of both interfaces when a row of the stack is set, and about
what becomes of the row that a refused request has made; that a row of the stack goes
before its interfaces do is in the code (`ifTable_removeHier`) and in the model, but is
not put to the test until an interface can become active.

Kept as the code has them: the look-up of the type before it is assigned
(`ifUtils.c:585`), the undo that gives back a reference and an activation that were not
taken, `ifAdminStatus` stored with a caller's flag. A new row's index is the lowest
free one. The handlers of a registered type are taken to accept.

### IpAddress: `inet/ipMIB.c`, `inet/neInetMIB.c`, over `IfTable`

`rows` are the rows of `oIpAddressData_BTree`, with the parts of `ipAddressTable` and
`neIpAddressTable`: `ifIndex` and `length` are the columns, `at` and `used`
(`u32IfIndex`, `u32PrefixLength` of `ipAddressData_t`) what the row counts with. `net`
is what it counts in: the interfaces, as rows of `IfTable` that the calls
`Interfaces!CreateReference` and `Interfaces!RemoveReference` change; the rows of
`neInetIfTable` with a count for each version; `ipAddressPrefixTable`;
`ipv4InterfaceTable` and `ipv6InterfaceTable`; and who is in the tree
of the interfaces. `IfIndexHandle` is `ipAddressIfIndex_handler`, with `Detach` and
`Attach` its two halves; `Activate` and `Destroy` are the cases of
`ipAddressRowStatus_handler`; `Reserve`, `Release`, `Action`, `Undo` and `Commit` the phases of a
SET.

Kept as the code has them, and worth a look by who works on it, for no document says
otherwise: only the address for which the row of `neInetIfTable` is made is counted
there (`ipMIB.c:2556`), so that the row goes with the first address that leaves and the
others can no longer be destroyed; the removal of one of another version then fails
half-way, with the address in no tree (2522); an address whose prefix length was
changed keeps the old prefix when it becomes active on the same interface (2508); and
a destroyed address enters the tree of the interfaces again with index 0 (2574),
where COMMIT frees it. What the code does to that tree once it holds a freed node, or
when it removes a node that is not in it or adds one twice, is undefined; `TreeDefined`
leaves these steps out.

## Runs

| Run | Shows |
|---|---|
| `free_range` | All interleavings of creations and removals, with and without memory. `RangesDisjoint`, `NoDoubleAllocation`, the refinement `KeepsPromise`, and `BoundedLoss`: unless memory is out or a range is empty, one call loses the index that it is about and the next at most. |
| `binary_tree` | All sequences of additions and removals. Between calls the tree is a balanced search tree with the right nodes (`HoldsMembers`, `NoRedRed`, `Balanced`); look-ups and scans agree with it (`LookupsAgree`, `ScanInOrder`); within calls `NoNullDereference`, and `AdjustTestsTrivial`, which is what the code's comments at `removeSiblingChildAdjust` say; every call returns. |
| `binary_tree_readd` | Expected to fail: a node that is added again with old pointers. The counterexample gives a red node a red child, against the comment at `lib/binaryTree.c:871`. |
| `message_queue` | Threads come up in any order while messages are sent. `NoLostWakeup` once a thread has parked with its lists read; `AckMeansReceived`, `NoDuplicates`; `MessagesRead` and `AcksReturn` once all threads are up and have parked. |
| `binary_tree_oid` | Expected to fail: three nodes ordered by the comparison of object identifiers that the tables use. The scan is out of order, while the tables declare their walk sorted (`inet/ipForward.c:157`). |
| `route_table` | Requests of one to three variables, among them a creation with columns of the new row, with a failure at each phase and variable. `NoDangling`: no row is used that is missing or freed, but by UNDO of a creation with columns; `RolledBack`, and the refinement `AllOrNothing`. |
| `table_set` | Requests of one and two variables on every table that answers to SET, its row in every state, with failures of memory, of handlers and of other mappers. What a refused request leaves (`RolledBack`; a new row that `removeExt` does not remove is the exception) and an answered one changes (`TakesEffect`), that an answer without an error means a row (`RowsAreMade`), that rows which are parts of others are not made (`PartsAreNotMade`), that frozen columns stay while the row is up (`FrozenWhileUp`), and which memory may be misused (`NoOtherFault`). |
| `table_set_scalar` | Expected to fail: a scalar keeps what ACTION wrote when the request is refused. |
| `table_walk` | A walk with GETNEXT on a table for each kind of index, while rows come and go. Each row that stays is shown (`WalkSeesAll`), unless there were keys that the table's comparison cannot tell apart. |
| `if_table` | Two interfaces: all four kinds of callers, the modules and SET requests that stack interfaces, committed, refused or taken back, and a manager who sets types and row statuses. `ReferencesHeld`; `NeverActive`: no sequence of calls makes an interface active; `RowsStay`: none removes one; `JoinsInterfaces`, `NothingBelowAlone`. |
| `ip_address` | Three addresses that come to two interfaces, move and go. `UsesCounted`: an interface counts a reference, and a prefix an address, for exactly the rows that use them, also after a move that failed half-way. |
| `if_admin` | Expected to fail: `ifAdminStatus` takes the value 18, a status with a flag. |

`NoLostWakeup`, `MessagesRead` and `AcksReturn` are about threads that have parked
once. Before that the code does lose a wake-up: a signal between registration and
the first `xThread_wait` leaves the flag set and the thread asleep until the next
message (`lacp_main.c:86`). The run has those states; the properties begin after
them, and say so.

Each property has a mutant in `PROJECT.json`: a change to a definition of the
model, such as a bug in that code would be, that makes TLC find the property
violated.

## Bounds

- `free_range`: `U32Max` 7, range 1 to 7, indices 1 to 5, four cells. With five
  indices there can be three ranges and each can be split, emptied and pushed up
  against the next; all four cells can be in
  use when a range is to be split, so that the heap runs out, and in most states
  some are free. Indices stay two below the largest
  integer, where the code's `u32Start++` cannot wrap (in the code 2^31-1 of 2^32-1).
  Symmetry over the cells, whose names do not matter.
- `binary_tree`: eight nodes, of which two share a key. Seven fill three levels, so
  that every case of insertion and removal occurs, among them the ones that go
  up the tree; every action is taken, and `fault` is reached by none. Four nodes for the counterexample.
- `message_queue`: three threads, two messages: a sends to b and c, b sends to c;
  c wants acknowledgement. This has a sender that is a receiver too, two messages
  on a list, a receiver that is not the last, and destinations that are left out
  because their thread is not up. Messages are sent again and again.
- `route_table`: two keys, two columns of different types, two values, three
  variables. Three are a creation, a column of the new row and something of
  another row; or a creation and destruction. Symmetry over the keys.
- `table_set`: every table with every single variable of every column, and every
  pair from two columns of each kind of column (kind: checked, written and frozen
  alike). A failure of one variable after another was carried out needs two; the
  state of the row, "none" included, is any. Numbers 5 and 65538, which no field
  of 16 bits holds; octets of one and two in a field of two, and of three where
  RESERVE1 looks at their number.
- `table_walk`: three rows made or removed, from an empty tree, before the walk or on its way;
  keys from numbers 1 and 65537 and from octets that differ in length and in their last
  octet, by one and by more. `CHECK_DEADLOCK FALSE`: a walk ends. Three changes are enough
  for a row before, between and behind the walk's place, and for three keys of which two cannot be told apart.
- `if_table`: two interfaces and the layer 0; two stack rows at a time beyond those
  that the code adds by itself: as an interface may be stacked on itself, two above one, two below one,
  and both ways round. The aggregator creates, activates and undoes twice, the VIP makes a row without a
  reference and the I-LAN one with, and the port takes what is there: three references,
  so that one undo too many takes another's. A manager's I-LAN gives back what it never took. 18 is
  the status that callers leave. `if_admin` has the same callers, types and interfaces;
  the proofs have any callers, types and indices.
- `ip_address`: two addresses of version 4 in one prefix, so that a count reaches two
  and outlives one of them, and one of version 6, without which no move fails
  half-way; two interfaces, one prefix length, and lengths not yet written. The
  requests make an address, name interface 1 or 2 with the activation, name
  interface 2 alone, activate, take out of service and destroy. Counts wrap at 4
  instead of 2^32: three addresses cannot reach it by counting up. Symmetry over the two.
- `binary_tree_readd` has `CHECK_DEADLOCK FALSE`: the program stops where it would
  follow a null pointer.

## Fairness

- `BinaryTree`: weak fairness on the steps of a call. A call runs in one thread
  without waiting for anything; whether a new call begins is open.
- `MessageQueue`: weak fairness on each thread and on each send that has begun: the
  operating system runs them. Strong fairness on the two steps that take an
  `oLock` of another thread (`AckSource`, `Deliver`): the lock is let go in each
  `xThread_wait`, and a POSIX mutex gives no order, so it is an assumption that who
  waits for it gets it at last. No fairness on `SpuriousWake` or `BeginSend`.
  `CHECK_DEADLOCK FALSE`: the system may rest with all threads asleep, when a
  message without acknowledgement is left on the source's list.
- The other modules: safety only. Requests and calls come from outside, and the
  loops over a request's variables are bounded.

## Proofs

Eight proof modules, all obligations checked by TLAPS (SMT, Zenon and LS4). Every
invariant and every refinement that a passing run checks is proved here for all
values of the constants, but for the tree, where removed nodes are taken to be freed and,
for look-ups and scans, the comparison to be an order: `binary_tree_readd` and
`binary_tree_oid` show that neither can be left out.

- `FreeRange_proofs`, from `FreeRangeAssumption`: `TypeCorrect`, `Disjoint`, `NoDouble`,
  `Refinement` and `LossBounded` (`BoundedLoss`). The inductive invariant is the
  conjunction of the first three
  invariants: `NoDoubleAllocation` alone is not inductive, for taking an index from
  one of two overlapping ranges would leave it free in the other. The lemmas say
  what each operation of the pool does to the free indices: `CreateRangeOutcome`,
  `Shrink`, `AllocateOutcome`, `RemoveOutcome`; the steps of the table and the
  refinement follow from them. `LossBounded` is about pools with a cell left and no
  empty range (`Roomy`): there the upper part of a split finds its place, for a range
  that began where it begins would overlap the one that is split.
- `BinaryTree_proofs`, from `BinaryTreeAssumption`, for any nodes and keys: `TypeCorrect`,
  `MembersKept` (`HoldsMembers`), `ColoursAlternate` (`NoRedRed`), `StaysBalanced` (`Balanced`),
  `PointersExist` (`NoNullDereference`), `TestsAreTrivial` (`AdjustTestsTrivial`),
  `LookupsFind` (`LookupsAgree`) and `ScansInOrder` (`ScanInOrder`). All are for
  `FreshNodes`, the last two also for a comparison that is an order (`~Differences`).
  Properties of paths are made local. There are numbers, a place
  for each node and an interval of places for its subtree, such that a child has the
  part of its parent's interval on its side (`PlacesOK`); and there are heights such that the two
  sides of a node are equally high (`HeightRule`). Neither is part of the state: the invariant
  `IInv` says that such places and heights exist, and each step shows others, a
  rotation the same places with two intervals changed, a new leaf a place between two, a
  swap the places exchanged. The other parts of `IInv` follow the code:
  `CallOK` and `PhaseOK` say where a function of the rebalancing is called and what it has
  tested, `ColoursOK` which red node may have a red child until the call ends (`Excused`,
  `Painted`), `HeightsOK` where a black node is missing (`ShortAt`) and which
  node is about to go (`Leaving`), `DescentOK` that the new key belongs below the place
  that the descent has reached, `ZeroedOK` what a fresh node looks like. One lemma
  for each function; `MirrorLinks` and its like give the cases of the other side.
  The paths that functions of the module follow (`FindMax`, `NodeFind`, `FindNext`, `GetNext`, the
  scan, `Subtree`, `BlackHeight`) are sequences of repeated steps (`Repeats`), which end
  because the intervals get narrower (`RepeatEnds`) or the set stops growing (`GrowthEnds`).
- `MessageQueue_proofs`, from `MessageQueueAssumption`: `TypeCorrect` and `WakeupsKept`
  (`NoLostWakeup`),
  for any threads, messages and destinations. The invariant `Safe` adds `Fresh` (a
  thread that has not waited has not parked), `Idle` (a thread woken for nothing
  has nothing to read) and `AcksRead` (no acknowledgement arrives while a thread
  reads messages, because it holds its lock). `AcksRead` is why clearing the flag
  after the last look loses nothing. Then `AckIsHonest` (`AckMeansReceived`) and `NoneTwice`
  (`NoDuplicates`), for any number of receivers. The invariant `Whole` ties the counter
  `rxCount` to the threads: the receivers counted and those with the message on a
  list are as many as the destinations it was handed to (`Once`), while a send may still be
  handing it to more (`Sound`). The count of a set of threads is the work of the
  proof: each step moves at most one.
- `RouteTable_proofs`, from `RouteTableAssumption`, for requests of any length
  up to any bound: `TypeCorrect`, `Rollback` (`RolledBack`) and `RowsAreThere`
  (`NoDangling`). The invariant `IInv` is a conjunction of named parts. `Buffers`, `Rows`, `Single` and
  `Cells` describe the table in terms of the one before the request and of what the
  buffers hold; `Cleared` says that FREE and UNDO have dealt with the variables
  behind them; together they give `RolledBack` at the end of the loop. `Found`
  carries the row from RESERVE2 to ACTION and COMMIT, `OneDestroy` and `Freed` say
  when a row may vanish in COMMIT, `Shared` that a variable without a row at first comes after the
  one that made it; together they give `NoDangling`. `Defaults` ties
  the columns of missing rows. `Implements` is that `RouteTable` implements
  `AtomicSet` (`AllOrNothing`). Only the answer changes what a manager sees, so
  every step but the last of a request must be a stutter; the invariant `Carried` says
  what each phase hands on to the next, so that at the last step the table is the
  old one with the request's values: `LookedUp` (the row found at the start is the one in
  the table), `MadeNew` (a row made in RESERVE2), `Statuses` and `Values` (what COMMIT
  and ACTION have written of the variables behind them). A failed request is
  `RolledBack`, through the lemma `TraceLess`.
- `TableSet_proofs`: for any catalogue that satisfies `CatalogueAssumption`,
  whatever its tables and columns, and requests of one or two variables:
  `TypeCorrect`, `RowsAreMadeOrFound` (`RowsAreMade`), `PartsNeverMade`
  (`PartsAreNotMade`), `FrozenKept` (`FrozenWhileUp`). `RowsMissing` is why the error that RESERVE2
  sets is not lost when the loop goes on; `FrozenPassed` carries what RESERVE2 tested to ACTION.
  - `RefusedIsUndone` (`RolledBack`): the
    invariant `UInv` says that a row just made stays in a buffer that FREE or UNDO has
    yet to reach and a row that was found is in none, that nothing is written
    before ACTION, and that each column, or the buffer of a variable that UNDO has
    yet to reach, has the old value.
  - `OnlyKnownFaults` (`NoOtherFault`): `FInv` says that a variable behind RESERVE1 has
    the type of its column, unless the mapper tests the first only
    (`VariablesChecked`); that the fields of a row are where the phase will write them
    (`CellsFound`, `RowInHand`); and what a buffer may hold (`BuffersKnown`). The property
    excuses tables by what their entry in the catalogue says, not by their name.
  - `AnsweredTakesEffect` (`TakesEffect`): `TInv` says that the variables which ACTION
    has passed read as the request has them, cut to their width (`Written`), and what
    COMMIT finds and leaves of the row's status (`RowAtCommit`, `StatusCommitted`).
- `TableWalk_proofs`, from `KeysAssumption` and `WalkAssumption`, for any catalogue and any changes
  before the walk and between two requests: `TypeCorrect`, `WalksSeeAll` (`WalkSeesAll`) and
  `NumbersMissNone`: if the index has numbers only, a walk that has ended has shown each row that stayed. The fact
  that carries them is that among keys whose differences do not exceed one
  `T_BTreeNodeCmp` (`BeforeIs`) and the manager, who compares the names that the fields are written
  as, have the same order (`SameOrder`: numbers in as many bits as the field has,
  octets by length and then content), and that it is strict and total. As long as
  all keys that were ever in the tree are such, the rows are in that order, since
  a search ends where the key belongs (`EndsInOrder`, `CreateEntryOrdered`). With it each row that
  stays has been shown or is beyond the name that is asked for, and the answer, the
  first row beyond, passes none over.
- `IfTable_proofs`: for any number of indices, types, callers and flags:
  `TypeCorrect`, `ReferencesCounted` (`ReferencesHeld`), `NoInterfaceActive`
  (`NeverActive`), `RowsNeverGo` (`RowsStay`), `StackJoinsInterfaces` (`JoinsInterfaces`), `NoneBelowIsAlone`
  (`NothingBelowAlone`). One invariant, for they
  need each other: the counts are right because no row is ever active, so that each
  undo takes back what the code before it did. The assumptions on callers are
  that who creates also deactivates, and that who undoes deactivates exactly when
  he activates; all callers in the code do. For `NothingBelowAlone`, `BelowFollows`
  says that the look-up after the row <<h, 0>> finds a row below h if there is one,
  so that no row is made that says there is none.
- `IpAddress_proofs`, from `IpAddressAssumption`: `UsesAlwaysCounted` (`UsesCounted`),
  for any addresses, versions and lengths, and counts that wrap beyond the
  number of addresses. What the tables count depends on two fields of each row only,
  `at` and `used`; each handler changes one of them at a time, in the call that changes the
  count (`EnterInterface`, `LeaveInterface`, `UsePrefix`, `LeavePrefix`), and a
  failure half-way (`MoveWithout`) is between two such changes. `PendingOK` says that a row
  that the end of a request will free is at no interface.

The constants' assumptions are as weak as the code justifies: any cells, any
width, any range that leaves two indices; any nodes with any keys; any threads with destinations that
are not repeated; any keys, columns and values with a status column apart;
any catalogue that is consistent, where `CatalogueAssumption` says what consistent means: each column
that can be written can be read, rows that SET makes by a status have one, and octets are shown by the
count or the size that ACTION writes.

Induction is used only over numbers and finite sets, as the least element of a set of
numbers (`Least`): the library's induction theorems take an operator as parameter, which the
provers cannot instantiate.

## What is only model-checked

- Liveness: `CallsReturn`, `MessagesRead` and `AcksReturn`. Liveness under fairness and ENABLED are
  beyond the prover. That a look-up or a scan ends is part of `LookupsFind` and
  `ScansInOrder`; that the descent and the rebalancing end is not proved.
- The counterexamples of the runs that are expected to fail.
- That the catalogues satisfy `CatalogueAssumption` and `KeysAssumption`: TLC evaluates
  them in `table_set` and `table_walk`.

## What is not modelled

- `xBTree_nodeUpdate`, which is a removal and an addition of one node (the run
  `binary_tree_readd` has the pair); functions of `lib/freeRange.c`, `lib/thread.c` and
  `lib/message.c` that no code calls.
- The locks around tables: all configuration runs in one thread. The stack
  takes the lock of rows and of the stack in two orders (`ifStackTable_createRegister`,
  `ifStackTable_createHier`), which no second thread makes a deadlock of yet.
- The contents and freeing of messages: use of a destination's list node
  after its last reader (`lib/message.c:196`) depends on memory, not on state.
- SET in `TableSet`: requests on several rows of a table (`RouteTable` has them), a
  variable named twice, the octet sizes of scalars. GET of values that are
  computed, other than elapsed times.
- The walk: negative index values;
  `neIeee8021QBridgeVlanCurrentTable`, which walks a tree other than the one get
  searches, and six tables with a part of the index that is not in the key of the
  row. Six of the tables of `ethernet/ieee8021BridgeMib.c` on priorities are in the catalogues but
  get no rows, since `neIeee8021BridgeBasePortAdminFlags_handler`
  (`ethernet/neIeee8021BridgeMIB.c:595`) is not called.
- The agent, net-snmp: that it looks a row up once per request, that variables of
  one row share what the mapper hands back, are assumptions in the headers of the modules.
  That `memcmp` answers with a difference is the constant `Differences` of `TableWalk`.
- The removal of a row in `TableWalk` where the search for it fails, because
  the comparison is no order: the row then stays in the tree, which is one of the model's behaviours.
- Interfaces: the propagation of the operational status along the stack, which only an
  active interface starts; references of `ifRcvAddressTable`; a base port attached to a VIP; PIPs, whose
  creation always fails; registrations by a module inside the request that sets the stack; requests that
  name a column or the destruction of an interface that is not there, which `neIfTable_mapper` carries
  out on a part of no row.
- What the model of `IfTable` shows and no document of the repository refutes, so
  that no run expects it to fail: a refused `ifTable_createReference` that made the row leaves it
  behind, referenced or not (`if/ifMIB.c:638`, `658`); a row that `neIfTable_removeExt` removes
  is not freed; when the last row above or below an interface
  goes, the row that says so is often not made again, since the look-up for another one
  has its arguments swapped or finds the row that is going (`if/ifMIB.c:1741`, `1747`).
- Bridge components, base ports, VLANs, FDBs, and service instances beyond
  their tables: the calls between their rows are the plan above. Most end in a stub of
  the hardware layer or in a handler without a caller.
- Addresses: prefix lengths over 8 (version 4) and over 16 (version 6): the prefix is
  allocated with the number of the version as its size, 1 and 2 octets, and a longer
  prefix is written past its end (`inet/ipMIB.c:2009`). The run uses 8 only, and what the proofs say of longer ones is what
  the tables would count if the prefix had room. Zones (the code writes before the prefix that it has allocated for them,
  `inet/ipMIB.c:2017`), unnumbered interfaces, whose counts no code changes, the rows of statistics and scope
  zones that go with an interface, requests that name a column of an address
  that has no row (the second switch of RESERVE2 reads through a null pointer).
- Everything marked "not_modelled" in `PROJECT.json`, each with its reason there.
