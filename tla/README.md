# Verification of chipemu in TLA+

chipemu simulates chips of the MOS 6500 family at the level of transistors, and its
testbench boots the BASIC of a Commodore 64 or a VIC-20 on the simulated CPU. This
directory holds TLA+ models of its parts, the TLC configurations that check them, and
proofs for TLAPS. File and line numbers are those of the repository.

## 1. Inventory

| Part | Source | State | Operations | Talks to |
|---|---|---|---|---|
| Netlist construction | `src/src/nmos.cc:64-141, 293-366` | the vector `nodes`, `node_offsets` | `setup_transistors`, `create_nodes`, `lookup_leg` | reads a `chip_description`, gives the simulator its words |
| Switch-level simulator | `src/src/nmos.cc`, `nmos.h` | flags of nodes, leg flags of transistors, the group in hand, `change_order` | `set_node`, `recalc`, `stabilize_network`, `get_node` | called by the pins |
| Queue of changed nodes | `src/src/nmos.cc:144-190` | `changed_queue` and two places in it, a mark on each node | push, pop, test for empty | inside the simulator |
| Pins, buses, I/O port | `src/src/mos65xx.cc`, `include/mos65xx.h` | `ioports`, `iodirs`, `is_aec_high` | `pin_write`, `pin_read`, data and address bus, register getters | the simulator below, the machine above |
| 6502 netlist | `src/src/mos6502.inc` | none: data | | |
| Run loop | `testbench/machine_6502.cc` | the mutex, the cycle count | `run`, `initialize_CPU`, `cycle`, `handle_memory` | drives the pins, asks the memory, calls the host |
| Memory map | `testbench/memory.cc`, `c64.cc`, `cvic20.cc`, `commodore.cc:63-78` | an ordered list of ranges with their bytes | `add_RAM`, `add_ROM`, `add_range`, `read`, `write` | run loop, host |
| Kernal input and output | `testbench/cbm_tiny_kernel.s`, `commodore.cc` | registers SEL, IO, ACK; LAST_CHAR | `chrin`, `chrout`, `not_implemented`; `on_CPU_cycle` | 6502 code and C++ meet in the registers |
| Kernal code | `cbm_tiny_kernel.s` | current top and bottom of the work area, LAST_CHAR, VAR0, the stack | `reset`, the jump table, `memtop`, `membot`, `screenxy`, the interrupt routine, and all of the above | the memory it runs in, registers set by the constructors |
| Registry and command line | `machine_implementation.cc`, `main.cc` | names and constructors, trace file, the machine picked | static registration, `create`, argument loop, destructors | makes and runs a machine |

What is hard about each part, and what makes it right:

- **Simulator.** It is event driven: a node that is not queued is taken to be right. It
  walks a group of joined nodes while it changes the marks the walk looks at, and knows
  that a transistor is on only by a flag that flips of its gate invert. Right means: the
  marks, the queue and the flags agree, the walk finds exactly the joined nodes, and
  when nothing is queued no full evaluation would change a level.
- **Queue.** Two places that wrap in a vector and that nothing keeps from meeting. Right
  means: a FIFO, as long as it is not overfilled.
- **Construction.** Words of 16 bits that hold offsets and shifted ids, and a search for
  a leg that must tell equal-looking transistors apart. Right means: either the words
  hold the netlist described, or construction fails.
- **Pins.** Tables that exist twice, and nodes that can be driven low only after they
  were driven high. Right means: a pin drives its signal, and the CPU reads what the
  host writes.
- **Run loop and memory.** A fixed order of small calls, repeated by every run, under a
  mutex; overlapping ranges. Right means: the CPU has a flat memory before it, each
  cycle is served once and in time, and each run resets the CPU properly.
- **Kernal.** The 6502 takes several cycles for what the host may look at after each
  one. Right means: together they are a terminal. Its routines share two variables and the
  stack, and store words in two steps. Right means: a call returns to its caller and has
  the effect it promises, and no other.
- **Process.** The registry is filled by constructors of static objects in an order that is
  not defined and emptied by destructors in another; arguments may repeat, and a
  constructor may throw. Right means: what was asked for runs, and nothing is left at the end.

The parts depend on each other in one direction: the run loop calls the pins, the pins
call the simulator; the host and the kernal's code meet in the registers only. Nothing
is persisted, and the only concurrency is the order of the CPU's and the host's accesses
to the registers, and the callers of `run` that the mutex keeps apart.

## 2. Modules

| Module | Models | Uses |
|---|---|---|
| `NmosNetlist` | what the constructor makes of a description, as a function; what the simulator relies on in a chip (`ChipOK`) and in a description (`WellFormed`) | |
| `Nmos` | the simulator, one action per turn of each of its loops | `NmosNetlist` |
| `SwitchNetwork` | abstract: a network of switches, with a full evaluation to refer to | `NmosNetlist` |
| `NmosProperties` | the simulator's properties | `Nmos`, `SwitchNetwork`, `ChangeFifo` |
| `MCNmos` | circuits and small chips for TLC | `NmosProperties` |
| `NmosProofs` | proofs of all properties of `NmosProperties` but `StabilizeSettles` (false) and liveness, with the refinement | `NmosProperties` |
| `ChangeRing`, `ChangeFifo` | the ring of changed nodes, and the FIFO it implements | |
| `ChangeRingProofs` | proofs, with the refinement | `ChangeRing` |
| `NmosLayout`, `MCNmosLayout` | the words the constructor builds, modulo 2^w | `NmosNetlist` |
| `NmosLayoutProofs` | proofs of all properties of `NmosLayout`; that what is constructed is a chip as the simulator takes it | `NmosLayout` |
| `Pinouts` | the pin tables of the source and of the header | |
| `Mos65xx`, `MCMos65xx` | pins, buses, register getters and the state of the I/O port | `Pinouts` |
| `Mos65xxProofs` | proofs of all properties of `Mos65xx` that hold | `Mos65xx` |
| `AddressSpace` | class `memory`, and the ranges of the two machines | |
| `FlatMemory` | abstract: one cell per address and one access per cycle | |
| `Commodore` | what the host does after a cycle, told from the registers | `AddressSpace` |
| `Machine6502`, `MCMachine6502` | `run` with all it calls, refined to `FlatMemory` | `Commodore`, `FlatMemory` |
| `Machine6502Proofs` | a store and the load after it, for every list of ranges; proofs of all properties of `Machine6502`, with the refinement | `Machine6502` |
| `Characters`, `Terminal` | the kernal's translation tables; abstract: a terminal | |
| `KernalIO`, `MCKernalIO` | the registers, the 6502 code and the host | `Characters`, `Terminal` |
| `KernalRerun` | the same, with a second `run` | `KernalIO` |
| `KernalIOProofs` | proofs, with the refinement to `Terminal` | `KernalIO` |
| `KernalCode`, `KernalCalls` | the kernal's code by instructions; abstract: what its calls promise | `Commodore` |
| `KernalCodeProofs` | proofs of all properties of `KernalCode`, with the refinement | `KernalCode` |
| `CommandLine` | registry, arguments, run and exit of the process | |
| `Testbench`, `MCTestbench` | the process with the kernal's code in the machine it picks | `CommandLine`, `KernalCode` |
| `TestbenchProofs` | proofs about the process | `Testbench`, `KernalCodeProofs` |

### The simulator

A chip is a record (`NmosNetlist!Construct`) chosen in `Init`, so that one run ranges over
many chips. The state follows the code: `pullup`, `pulldown`, `high`, `inChange` and
`inGroup` are the flags of the nodes, `on` the flag in the two legs of a transistor (the
two are always flipped together), `queue` the entries between `changed_eating` and
`changed_feeding`, `group`, `groupVal` the group in hand, `changes` what
`add_ordered_change` has collected. The recursion of `group_add` is unrolled in `todo`, the
connectors that the nested calls have yet to look at, in the order they will.

`phase` names the loop that runs: `StabilizePush` queues one node after the other,
`SkipStale` and `RecalcNode` take one off, `SkipOpenLeg` and `FollowLeg` walk, `GroupComplete`
ends the walk, `KeepLevel` and `FlipLevel` are one turn of the loop over the group,
`CommitChange` is one turn of the loop over the ordered changes. The host calls `SetNode`
for the pins of the configuration, `Recalc` and `StabilizeNetwork`, in any order.

`changes` is a set of triples: the code fills an array and walks it in the order of ids,
which is what `CommitChange` does with the least one. The queue has room for 32 entries a
node less one, as the ring of the code: one push more (`Overfills`) empties it and leaves the
marks, which `changed_push` trusts ever after. The history variable `lost` says that this has
happened. `QueueIsFifo` says that the simulator uses its queue as `ChangeFifo` allows, the push
that overfills included, and `ChangeRing` implements `ChangeFifo` with the two places of the code.

`SwitchNetwork` is what the host may rely on. It has levels and what drives them, no queue, no
marks and no walk; the transistors follow their gates. `Evaluate` gives the nodes that are
joined at the time one level that their sources allow, `Return` needs that no group would take
another, and nothing else changes a level. `GiveUp` is the exception: a calculation may give up
(`gaveUp`, to which `lost` is mapped), and from then on `Return` claims nothing.
`ImplementsNetwork` maps the simulator to it: `Target` is the level of a node once the group in hand has been popped, so that `GroupComplete` is the
`Evaluate` of that group and the flips that follow, and the transistors they switch, are
stutters. `Return` claims a settled network only after `stabilize_network` and for `Separated`
chips; the rest holds for every chip and from the first call on.

The counter of the loop in `stabilize_network` has 16 bits (`MaxId`), so `ChipOK` asks for fewer
than 65,535 nodes. This excludes no chip that can be made: the words of the netlist hold ids
shifted by one bit, and have no room for as many.

### Construction

`NmosLayout` fills the vector of words in three loops, as `create_nodes` does, with each
word taken modulo `Word`, and raises what the code raises: out of range, the logic error
of `lookup_leg`, the failed assertion, which a Release build does not have (`asserts`). In a word
of 32 values a chip of three nodes has room for five transistors, so that `lookup_leg` has
equal-looking ones to tell apart, and a sixth reaches past it. `LayoutIsNetlist` compares what
can be read back from the words with `Construct`, the netlist that the simulator's runs use.

### Pins

`Mos65xx` keeps, for the nodes on pins and buses, the two flags `set_node` gives them and the
level they have. The rest of the chip is external: `Recalc` puts any address, RW and byte on
the pins, and leaves a node that nothing drives at its level and the supplies at theirs; it also
gives the inner registers any contents. `Held` is what the nodes of the registers then are, told
from their names. The lists that the getters read (`AIds` to `NOTIRIds`) are those of
`mos65xx.cc:97-169`, written out node by node, with the bit that P lacks and the node of IR that
is inverted. A signal is a pair such as
`<<"AB", 5>>`; `Pinouts` holds the tables of the source as sequences and the enums of the
header as sets of pairs, written independently from the two files.

### Machine and memory

The body of `run` is the constant `Script`, a sequence of calls to the chip, put together
from the sequences that `initialize_CPU`, `cycle` and the loop make; `at` says where each
caller is. On the rising edge of the clock the CPU puts out any access; `HandleMemory` and
the host's actions act on `data`, which holds the bytes of each range by offset. The ranges
are a sequence in the order in which `commodore()` and then `C64()` or `CVIC20()` add them, at
their true addresses; a ROM image is one byte, since only where a byte comes from matters.
`is_visible` is true for every range of the code and left out. `TraceCPU` keeps what the trace
says of the access; the registers it also prints are those of the getters.

### Kernal

In `KernalIO` every access of the 6502 code to SEL, IO or ACK is an action; the cycles in
between are counted by `gap`, of any length up to `MaxGap`. After every cycle the host looks
(`turn`). `inc ACK` is three accesses, as on the chip. A character is one of six: the four
of the tables `control_chars`, NUL, and one ordinary character that the tables leave alone. The program that
calls the kernal is external and calls `chrin`, `chrout` and the calls that are not
implemented in any order.

`KernalCode` has the rest of what the 6502 does. `Code` is the program, a sequence of
instructions for each label, as tuples of an operation and its operands; one action
executes each kind of instruction on A, X, Y, S, three flags and the memory of the machine,
with the stack in page 1 and S modulo 256. BASIC is external: it calls any entry of the jump
table, or executes `brk`, with any registers. The host looks once after each instruction; that
it looks after each cycle is what `KernalIO` is for, and the two divide the hazards of the
same code between them. `KernalCalls` says what a call promises in one step at its return, and
`ImplementsCalls` is the refinement: between a call and its return, the registers, the work
area and LAST_CHAR are mapped to what they were at the call. The reset finds S at any of
`StackPointers`, which is any byte but 2 (section 6). Addresses are 16 bits wide, the
program counter of BASIC after each call included.

### The process

`CommandLine` has the static objects before `main` (`Registrar`, in any order), `EnterMain`, one
action for each way in which `process_arguments` treats the next argument, `Run`, and the
destructors after it in any order. An argument is one of the options, a name, or another word;
`""` and `unwritable` stand for paths that do not open. Any machine's constructor may throw.
`CreateMachine` makes the new machine (`fresh`), and `ResetMachine` then puts it in the place of the
one picked before and deletes that: in between, two are alive.
`Testbench` puts `KernalCode` between `Run` and `RunReturns`: `Start` powers on the machine that the
registry's constructor makes, and `End` needs the end of the input.

## 3. Runs

| Run | Module | Bounds | States | Shows |
|---|---|---|---|---|
| `circuits` | `MCNmos` | seven circuits, two pins | 39,799 | levels are those of a full evaluation; the host sees a network of switches; flags, `change_order`; every call returns |
| `small_chips` | `MCNmos` | all chips of three signal nodes and up to two transistors that are `Separated`, and five that oscillate, gate themselves or overfill the ring | 4.72 million | the walk finds the joined nodes; no change is lost; marks and entries agree until the ring is overfilled; the ring is used as a FIFO |
| `misled` | `MCNmos` | one chip | | `StabilizeSettles` fails (section 6) |
| `overfilled` | `MCNmos` | one chip | | `StabilizeSettles` fails in 2,055 states: the ring was overfilled |
| `change_ring` | `ChangeRing` | 3 ids, 4 slots | 10,732 | the ring is a FIFO that forgets all when overfilled |
| `layout` | `MCNmosLayout` | 5,591 descriptions, words of 32 values, both builds | 87,643 | the words hold the netlist, or construction fails for a reason |
| `pins` | `MCMos65xx` | five models, two calls | 41,260 | each pin drives its signal, the buses read as the pins do, the getters as the registers are |
| `floating_bus` | `MCMos65xx` | the 6502, three calls | | `ReadsWhatHostWrote` fails |
| `machine` | `MCMachine6502` | two callers, ten addresses of each machine | 55,026 | a flat memory; each cycle served and traced as it was; reset held on every run |
| `kernal_io` | `MCKernalIO` | inputs of up to two characters, gaps of up to 2, 3 calls | 78,286 | a terminal; calls return |
| `kernal_rerun` | `KernalRerun` | one input, two runs | | `PrintsWhatWasWritten` fails |
| `testbench` | `MCTestbench` | two names, up to three of eight words, two calls with four sets of registers, two stack pointers at reset, two bytes of input | 2.56 million | the process does what was asked; each call of the kernal has the effect it promises |

Why the bounds are enough:

- *Circuits* has the shapes the 6502 is made of: inverter, stacked gate, cross-coupled
  latch, dynamic storage behind a pass transistor, a node that gates several, a transistor
  listed twice with its legs swapped, a bus of pass transistors. *Small chips* has every
  shape of that size, whatever the 6502 has. The walk, the ordered changes and the skip of
  equal levels all need two transistors to interact, and no more.
- In `change_ring` the ring is smaller than the code's (32 entries a node): every position of the two
  places, the wrap and the overfilling occur; the proofs cover every size.
- One chip of the simulator's runs fills the whole ring of 160 entries, so that every
  property of `small_chips` is checked before, at and after the push that overfills it.
- Descriptions of up to three transistors include duplicates, swapped legs, both legs on one
  node, an id 0 and an id past the last; those of six to eighteen different ones do not fit.
- Two calls on the pins are what it takes for one to disturb the other, as is a write and the
  evaluation that shows it.
- The addresses of the machine are the first and last of its ranges, with one on each side. The
  callers are interchangeable and declared symmetric; the run checks no liveness.
- Two characters, gaps of two and three calls are enough for a call to meet what the one
  before left; the proofs cover every bound.
- Three arguments are what it takes for a machine, a second one and an option between them, or
  for three `-t` in a row; the proofs cover every number. Two calls of the kernal are what it
  takes for one to set what the other tells, or for `chrin` to read the CR that `chrout` drops.
  The four sets of registers have characters of each kind (translated, dropped, plain, NUL),
  the carry set and clear, and S at 251 and at 1, where the pushes wrap in the page. The reset
  finds S at 253 and at 1, for the same reason.

Deadlock is checked in the runs of the simulator, the ring and the machine. The others stop
on purpose: construction ends, the calls on the pins are bounded, the input of the kernal
ends, and so does the process.

**Fairness.** `Nmos!FairSpec` assumes that a call which has begun goes on (`WF` of `Internal`):
it is one thread of code without blocking. `KernalIO!FairSpec` assumes the same of the loop of
`run`, which alternates the CPU and the host; of the program that calls the kernal nothing is
assumed. `RecalcReturns` is checked for circuits that have no oscillation. A ring of
inverters keeps `recalc_nodes` from emptying the queue. `CallsReturn` takes `fgetc` for a call that
returns; on a terminal it waits for the user.

## 4. Properties

Each is stated with its reason in its module. The ones that carry most:

- `ComponentAccounted`: after `stabilize_network`, nodes that are joined either have one of
  them queued, or all have a level their sources allow. This is the claim that the skips in
  `recalc_node` (`nmos.cc:498-506`) rest on. The reference is a full evaluation by closure
  (`Component`, `AllowedLevels`), independent of the walk. It holds for chips in which no
  gate can be joined to a leg of its own transistor (`Separated`), and not for others.
- `GroupIsComponent`, `GroupIsSet`: the depth-first walk against the same reference.
- `ImplementsNetwork`: the whole simulator against `SwitchNetwork`. A flip takes effect node by node
  and transistor by transistor, in an order the code sorts by ids; together they must be one
  step, no level may change on the way that is not the group's, and a call returns only with a
  settled network, unless the ring was overfilled. `RecalcReturns` completes it: the call does return.
- `HostLeavesRoom`: whatever the host drives between two calls adds at most one entry a node to
  the ring, so only a calculation can fill it. `ChangesAreQueued` and `QueueIsFifo` are the two
  sides of the marks: each has its entry until the ring is overfilled, and no push, pop or
  skip loses one.
- `RingImplementsFifo`, `ImplementsTerminal`, `ImplementsFlatMemory`: refinements. In the
  last, an access is observed with its byte, so a write that is lost is not a stutter.
- `ImplementsCalls`: the kernal's routines against their contracts, with the registers, the
  work area and the dropped CR. `ReturnsToCaller` and `LeavesTheRest` are about what a contract
  does not mention: the stack, and the cells next to the variables.
- `RunsWhatWasAsked`: the loop over the arguments against `Asks`, which tells from the places of the
  words alone what they ask for (every other of several `-t` in a row is a path). `NothingLeaks`
  and `RunsToTheEnd`: the life of a machine in the process.
- `TraceTellsAccess`: the trace asks the memory again on a read, after it was served and before
  the host has looked, so that it says what the CPU gets.
- `RegistersRead`: the hand-written lists of nodes against the registers they are to read.
- `LayoutIsNetlist`: two descriptions of the constructor agree, one as a function of the
  description and one as words that are read back the way the simulator reads them.
- `PrintsWhatWasWritten`, `AtRest`, `CyclesServed`, `ResetHeld`: what must hold between the
  steps of two actors.

## 5. Proofs

All theorems hold for every value of the constants that satisfies the named assumptions of
the modules.

- `NmosProofs` (`TypeCorrect`, `FlagsCorrect`, `MarksCorrect`, `GroupCorrect`, `WalkCorrect`,
  `ChangeOrderHolds`). From
  `ChipsAssumption`, which says what a chip record is. Each property is inductive together
  with `TypeOK`; the proofs have one step per action. `GroupIsSet` needs that the walk adds
  only unmarked nodes and that a node taken out is the last, so that the rest stays without
  duplicates; the lemmas on `Append`, `Tail` and the front of a sequence carry it.
  `WalkCorrect` needs `Walk`: a connector that leads out of the group by a transistor that is on
  is still in `todo` (`NoneMissed`), nothing else is (`TodoLeadsOut`), every set that is closed
  under the transistors and holds the first node holds the group (`OnlyJoined`), and the value
  tells which sources were met, in the order in which the switch falls through (`ValueTells`).
  `ChangeOrderHolds` counts the entries of one flip, from `FanOutOK`.
- `NmosProofs`, second half (`NothingIsForgotten`), the claim that the simulator rests on. The invariant
  `Events` says in every phase that the joined nodes of a signal either have one that is on the
  queue or collected to be (`Pending`), or one level that their sources allow (`Settled`), where
  a node still to be popped counts with the level it is about to get (`Target`); the component of
  the group in hand is left out while its walk is on. The heart is a flip, which switches any
  number of transistors at once. `GoneOff`: both legs of each are collected, so a component
  without a pending node has not changed. `GoneOn`: a component without a pending node is a union
  of old ones that were settled, and every transistor that joins two of them has legs at equal
  levels, or the leg collected would be in it; so all have one level, and the sources of each
  allow it. That the flags the code compares are the levels the legs will have is where
  `Separated` is needed: a group lies in one channel (`SameChannel`), so no leg is in the group
  of its gate. The run `misled` is what happens otherwise. `Pending` is told by marks, which the
  ring leaves when it is overfilled: the theorem then still holds, and it is `MarksCorrect`, until
  that push, which says that a marked node will be looked at.
- `NmosProofs`, last part (`HostIsNoBurden`, `UsesQueueAsFifo`, `NetworkImplemented`). `MarkedOnce`
  says that between two calls and while `stabilize_network` queues all nodes, each entry is there
  once and exactly the queued nodes are marked, so there are no more entries than nodes; it is
  inductive with the marks, since `RecalcReturn` needs an empty queue, and there is room for
  one more entry a node then (`RoomForOne`). For the FIFO, each step that
  touches the queue or a mark is a push, one that overfills, a pop or an unmarking. The refinement
  has one step per action. `GroupComplete` is `Evaluate` of the first node of the group, by `Walk`; every
  turn of `KeepLevel` or `FlipLevel` pops a node, which gets the level it was already mapped to
  (`TargetOnPop`), and `UpdateReturn` finds the group empty. `RecalcReturn` is `Return`: with an empty queue
  and nothing lost no node is marked, and `ComponentAccounted` leaves only `Settled`. The turn
  of `CommitChange` that overfills the ring is `GiveUp`.
- `NmosLayoutProofs` (`LayoutTypeOK`, `LayoutIsTheNetlist`, `LayoutFailsWell`): for any
  descriptions, any size of a word, with and without assert(). `LayoutAssumption` asks of a
  description that its count and its ids are numbers. `LayoutIsNetlist` speaks of the finished
  vector, so `LInv` says what is right of it in each loop: the lists hold the transistors gone
  through, ascending (`GatesCollected`, `LegsCollected`); the areas of the nodes placed lie one
  after the other (`Apart`) and start with their headers (`Headers`), so that what a later loop
  writes into one area leaves the others alone (`Elsewhere`); the legs of the nodes filled are
  written (`LegsWritten`), and the connectors of the nodes joined lead to them
  (`ConnectorsWritten`). The parts about places are claimed only of a vector that a word can index
  (`Roomy`), since beyond it the offsets wrap and areas overlap, which the types survive.
  `MatchingIs` says that `lookup_leg` finds exactly the one transistor: two that were kept differ
  in gate or legs. `SortedIs` ties the lists, built by appending, to the netlist's `Sorted`.
- `NmosLayoutProofs`, last part (`ConstructsChips`): `Construct` makes of every `WellFormed`
  description a chip that is `ChipOK`. With it `ChipsAssumption`, from which all of
  `NmosProofs` follows, asks of a constructed chip no more than that the ids of its
  description are those of nodes, that power gates nothing, and that no node gates more than
  half as many transistors as there are nodes, as in `mos6502.inc`. `Sorted` lists a finite set
  completely because the rank of an element is an injection into 1 to n, and so onto
  (`SortedLists`); connectors lead from either leg to the other, for a transistor with both
  legs on one node too (`ConnectorsOf`); the legs of a transistor between signals have the same
  closed sets around them, and so one label (`ChannelAgrees`). `MCNmos` states that all chips of
  the runs come from such descriptions (`DescsAssumption`).
- `ChangeRingProofs` (`RingTypeCorrect`, `RingRefinesFifo`). That only ids are held
  (`HoldsIds`) is inductive with the rest of the types. For the refinement, `EntriesPush` and
  `EntriesPop` say how the sequence between the two places changes in the four cases of wrapped
  and not wrapped, and `HeldPush` that the push of one entry too many leaves none.
- `KernalIOProofs` (`KernalTypeCorrect`, `PrintsRight`, `RestsClear`, `KernalRefinesTerminal`).
  Neither property is inductive: whether IO is clear when chrout sets SEL depends on how the
  call before ended. `Handshake` says what the three registers are at every label of the
  code, is inductive with the types, and implies both. The refinement has one step per action.
- `Mos65xxProofs` (`ChipTypeOK`, `PinsHoldHolds`, `BusesArePinsHolds`, `RegistersReadHolds`): for
  any addresses, bytes and contents of the registers and any number of calls, from
  `PinsAssumption`. The types and the registers are proved for all seven models; the other two
  assume `Chosen \subseteq Agreed`, the five models whose tables agree, since for the 6510-1 and
  6510-2 they are false (section 6). `Fits` says that a piece of a table and a piece of an enum
  number the same signals from the same pin on, and that the piece leaves out only what the enum
  leaves out (Vss and the unconnected pins of the 6502). It holds of one pin and of a run up or down
  (`OneFits`, `UpFits`, `DownFits`), and of two pieces put together (`BothFit`), so of the packages,
  pin by pin; with every signal numbered once (`OnePin`), the place of a signal in the table is its
  number and no other is (`EnumIs`). `PinsHold` is then inductive: a write to the pin of a signal sets
  what it drives, and any other leaves it. That the I/O port is never an output (`iodirs = {}`) is
  part of `ChipInv`, since the code has no path to it; a port pin that is one would not take a write.
  The values of a bus are recursive functions on 0 to n: `Recursion` shows that there is a
  function that satisfies the equation, built by extending it step by step to n (`Climb`),
  so that the one chosen does (`ReadIs`, `PinsValueIs`). `SameValue` relates the bits taken from
  the high end to those added up from the low end; `HighestFirst` and `BitsOf` relate them to
  the byte and back. `RegistersHeld` in `ChipInv` says that what the host and the buses do leaves
  the nodes of the registers alone.
- `Machine6502Proofs` (`StoreThenLoad`, `TypesHold`, `EveryCycleServed`, `ResetIsHeld`,
  `HostReadsWhatIsServed`, `HandsOver`, `TraceIsTrue`, `FlatMemoryImplemented`): every property
  of the `machine` run, for any set of callers, addresses, stores and characters, from `MachineAssumption`. None of them is
  inductive: whether a cycle was served depends on where the caller is. `Position` says, for each
  of the 53 positions of the script, what the levels of CLK0IN and RES are, whether the CPU is in
  reset, served and traced, and in the eight cycles of reset how many were seen (`InHold`, by the
  quotient and remainder of the position by four). `OneRuns` says that at most the caller that
  holds the mutex is in the script, and that `Position` holds where it is. `Inv` is both with
  `TypeOK` and `TraceTellsAccess`; there is one lemma per action. The first sections
  prove `StoreThenLoad` for every list of ranges (the first range that contains an address exists and
  contains it, `ServingHits`; a store changes one byte of one range, and two addresses of one range
  have different offsets), and what is at each position of the concatenated script. The refinement maps `HandleMemory` to
  `Read` or `Write` by `StoreThenLoad`, `Recalc` to `NextCycle` or a stutter, what the host does
  to `Device`, and the rest to stutters; that the registers are served by their own range
  (`RegistersServed`) follows from the lists of ranges of the two machines.
- `KernalCodeProofs` (`KTypeOKHolds`, `ReturnsToCallerHolds`, `LeavesTheRestHolds`,
  `CallsImplemented`): for any set of calls with any registers and flags, S included, so also for
  stacks that wrap in the middle of a call; any input; any number of calls; both machines. The
  properties speak of the state at the end of a call and say nothing about the way there, so
  `KInv` gives the state before every instruction of `Code`: `In(l, i)` for the i-th after label
  l, `InReset(i)` for the code at the reset vector, `InBasic` outside, `Off` before. `In` says how
  many bytes are on the stack (`Depth`) and which of them hold the return address, the flags and
  the accumulator (`Pushed`, and the clauses on `Place`), that the rest of the stack and of the
  registers' range is as at the call (`Untouched`), what the host's registers hold (`PortsAt`),
  what it has fetched and printed (`FetchedAt`, `PrintedAt`), and which of A, X, Y, the flags and
  the variables hold the caller's values or those of the call (`ValuesAt`): in the loops of
  `chrin` and `chrout`, that no entry of the table before X matches the character (`Searched`).
  There is one lemma per label, with a step per instruction and one for the host's look after it.
  With the invariant, each of `rts` and `rti` is seen by BASIC as the step `KernalCalls` has for
  the call, the reset as its `Reset`, and every other instruction as a stutter. The
  reset takes any S that is not 2, which is what keeps S from zero after its two pushes.
- `TestbenchProofs` (`ArgumentsDecide`, `MachineIsDeleted`, `RunsUntilEndOfFile`,
  `KernalInTestbench`): for any names,
  words and number of arguments. `Follows` says how the arguments up to the n-th have been
  followed, whatever comes after them; `LInv` adds that the registry has each machine once, at the
  same place in both lists, and `FreshOK` how many machines there are while one replaces another.
  The process steps are proved alone and lifted to `Testbench`, in which the machine runs between them. `SpecIsKSpec` lifts the results about the kernal's code: the
  process powers its machine on once and touches nothing of it.

Only model-checked: all liveness (under fairness, out of the prover's reach). That the ring is
not overfilled is neither checked nor proved, since it is not so (section 6, `overfilled`): what is
proved is that only a calculation can do it (`HostLeavesRoom`), and what holds until and after.

## 6. Where the code and what is said of it differ

Shown by runs:

1. `misled`, `nmos.cc:498`: when a transistor goes on while its legs have equal levels, neither
   leg is queued, though one may be about to flip in the same group. With a transistor whose
   gate is joined to its own leg, `stabilize_network` leaves a level that no source gives.
2. `kernal_rerun`, `machine_6502.cc:79`: a second `run` starts with the registers that the first left
   in the middle of `chrin`. The host fetches a character nobody asked for, and prints it when
   `chrout` sets SEL; what `chrout` then stores comes out one call late, or goes to the next
   `chrin`. A compiled program does.
3. `floating_bus`, `nmos.cc:385`: `set_node(id, false)` does nothing on a node without a pull-up,
   so the data bus floats on bits that no byte has driven high yet, and the CPU reads what
   it wrote there last. With a memory of zeroes a compiled 6502 goes to $B7B7 after BRK
   instead of $0000. The testbench is safe from it: its kernal drives all bits
   high with the first bytes that are fetched. `Machine6502` relies on that: its `bus` is the
   byte the host drives.
4. `overfilled`, `nmos.cc:172`: `changed_push` does not ask whether the ring is full. Three
   transistors that queue the same nodes again and again overfill it after some 2,000 steps; it then
   looks empty, `stabilize_network` returns, and two nodes that are pulled up and joined to
   nothing stay low. Their marks stay too, so nothing ever queues them again.

Seen while modelling, without a run of their own:

- The header numbers 23 pins of the 6510-1 otherwise than its table (`mos65xx.cc:530`): AEC, Vcc, AB0
  to AB12, P0 and DB7 to DB1 are one higher in the header (`mos65xx.h:201` has "AEC =  5", the
  table 4); AB13, Vss, AB14, AB15, P7 to P1, DB0, RW and pin 40 agree, so the header has two signals
  each on pins 19 and 38. A write to `AEC` sets the pull-up of the node Vcc. The 6510-2 has the same
  differences and one on pin 2: CLK2IN in the header, CLK1OUT in the table. `HeaderAssumption` in
  `MCMos65xx`, which TLC evaluates, says just this, and that the other five models agree.
- `address_bus_width()` is 11 for the 6503 and 6505 and 12 for the 6504, which have 12 and 13
  address pins in the header: the highest is not in `read_address_bus()`.
- `port_hoook` (`mos65xx.cc:381`) is called from nowhere and takes a high RW for a write, so the
  direction register at address 0 that `mos65xx.cc:373-375` quotes does not exist for the CPU.
- AEC is stored and read by nothing, though `mos65xx.cc:360-361` quotes what it is to do.
- A description with id 0 passes `setup_transistors`; `node_addr(0)` is then node 1.
- The comment at `nmos.cc:49-50` gives the extent of a node one word off.
- In the trace, DB on a read cycle is that of the cycle before (`machine_6502.cc:29`); the line that
  names the access asks the memory again and is right (`TraceTellsAccess`).
- When the constructor of a machine throws and an earlier argument has picked one, the process
  reports the error and runs the earlier one (`main.cc:77-86`). When it does not throw, two machines
  are alive until `reset` deletes the earlier one (`main.cc:78`).
- The FILE of the trace (`main.cc:98`) is never closed; the exit of the process flushes it.
- The two bytes that the reset pushes since BASIC "can't start with a zero stack pointer"
  (`cbm_tiny_kernel.s:53`) help when S is 0, and lead to 0 when S is 2. `KernalCodeAssumption`
  leaves 2 out.
- A charge is ranked above a pull-down that the walk meets after it and below one before
  (`nmos.cc:199-216`): what a floating group becomes depends on the order of its connectors.
  `SwitchNetwork` admits both.
- The getter of P has no node for bit 5, which reads 0 and is always 1 on the chip; the
  getter of IR reads the nodes of its complement as they are, so it gives 255 minus the
  opcode; the trace inverts it (`machine_6502.cc:26`).
- The NMI pin is driven high once and never again, so the kernal's NMI routine cannot run.

## 7. What is not modelled

- `mos6502.inc`: 1,725 nodes and 3,510 transistors are beyond TLC, and are data. What is used of
  it: which nodes have pull-ups, and that the pins the host drives are not supplies.
- BASIC and the ROM images, other than where they lie.
- The usage text, the text of the statistics, the layout of a trace line, and the traces made in
  reset: output without effect on the rest.
- The NMI routine of the kernal, which no pin reaches; `chipemu.cc` (a destructor); `charin`,
  `charout`, `monitor_in`, `changed_clear`, `port_hoook`: never called.
- The 6502's instruction set, but for the instructions that the kernal's code has.

## 8. Plan

Done: the simulator and the network of switches it implements, its construction and its queue;
the pins and getters; the kernal's input and output, and its code; the machine with its memory;
the process.

Next: `KernalCode` by cycles instead of instructions, which would subsume `KernalIO`.
