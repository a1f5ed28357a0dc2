---------------------------- MODULE CommandLine ----------------------------
(***************************************************************************)
(* The testbench as a process: the registry of machines                    *)
(* (src/testbench/machine_implementation.cc), filled before main by        *)
(* constructors of static objects in an order nobody defines; the          *)
(* arguments (src/testbench/main.cc); the run; and the destructors of      *)
(* static objects, again in any order.                                     *)
(***************************************************************************)
EXTENDS Integers, Sequences, FiniteSetsExt

CONSTANTS
  Names,       \* the names of machines
  Words,       \* the arguments the program may be given
  MaxWords     \* most arguments

(* "" and "unwritable" stand for the paths that cannot be traced to. *)
Help == "-h"
Trace == "-t"
Stats == "-s"

ASSUME CommandLineAssumption ==
  /\ Names \cap {Help, Trace, Stats, "", "none"} = {} /\ "none" \notin Words
  /\ MaxWords \in Nat

VARIABLES
  linked,       \* the machines whose registrar is yet to run
  registry,     \* machines: its names and constructors, and whether it is there
  failing,      \* the machines whose constructor throws
  words,        \* the arguments not looked at yet
  at,           \* how far the process is
  fresh,        \* what create has returned and reset not yet taken, or "none"
  chosen,       \* machine: the name of what it was made by, or "none"
  alive,        \* how many machines there are
  traceFile,    \* trace_file: the path it was opened with, or "none"
  stats,        \* print_stats_on_exit
  code,         \* the exit code
  asked         \* history: what the arguments ask for

lvars == <<linked, registry, failing, words, at, fresh, chosen, alive, traceFile, stats, code, asked>>

-----------------------------------------------------------------------------
(* Reference: what the arguments ask for, told from their places.  Every   *)
(* other of several -t in a row is the path of the one before it.          *)
IsPath(ws, p) ==
  Cardinality({k \in 1 .. p - 1 : \A j \in k .. p - 1 : ws[j] = Trace}) % 2 = 1

Options(ws) == {p \in DOMAIN ws : ~IsPath(ws, p)}

GoesOn == 3

(* The exit code that option p ends the process with, if it does. *)
StopsWith(ws, p, made, broken) ==
  CASE ws[p] = Help -> 0
    [] ws[p] = Trace /\ (p = Len(ws) \/ (p < Len(ws) /\ ws[p + 1] = "")) -> 2
    [] ws[p] = Trace /\ p < Len(ws) /\ ws[p + 1] = "unwritable" -> 1
    [] ws[p] \in broken /\ ~\E q \in Options(ws) : q < p /\ ws[q] \in made -> 1
    [] OTHER -> GoesOn

Asks(ws, known, broken) ==
  LET stops  == {p \in Options(ws) : StopsWith(ws, p, known \ broken, broken) # GoesOn}
      picks  == {p \in Options(ws) : ws[p] \in known \ broken}
      traces == {p \in Options(ws) : ws[p] = Trace}
      Exits(n) == [code |-> n, machine |-> "none", trace |-> "none", stats |-> FALSE]
  IN CASE known = {}  -> Exits(1)
       [] known # {} /\ stops # {} -> Exits(StopsWith(ws, Min(stops), known \ broken, broken))
       [] known # {} /\ stops = {} /\ picks = {} -> Exits(2)
       [] OTHER -> [code |-> 0, machine |-> ws[Max(picks)],
                    trace |-> IF traces = {} THEN "none" ELSE ws[Max(traces) + 1],
                    stats |-> \E p \in Options(ws) : ws[p] = Stats]

-----------------------------------------------------------------------------
LInit ==
  /\ linked \in SUBSET Names
  /\ failing \in SUBSET linked
  /\ registry = [made |-> FALSE, names |-> <<>>, constructors |-> <<>>]
  /\ words \in UNION {[1 .. n -> Words] : n \in 0 .. MaxWords}
  /\ at = "static"
  /\ fresh = "none" /\ chosen = "none" /\ alive = 0
  /\ traceFile = "none" /\ stats = FALSE /\ code = 0
  /\ asked = Asks(words, linked, failing)

(* registrar: factory_init, and an entry in each of the two lists. *)
Registrar(name) ==
  /\ at = "static" /\ name \in linked
  /\ registry' = [made |-> TRUE, names |-> Append(registry.names, name),
                  constructors |-> Append(registry.constructors, name)]
  /\ linked' = linked \ {name}
  /\ UNCHANGED <<failing, words, at, fresh, chosen, alive, traceFile, stats, code, asked>>

(* count() makes a registry if there is none. *)
EnterMain ==
  /\ at = "static" /\ linked = {}
  /\ registry' = [registry EXCEPT !.made = TRUE]
  /\ IF registry.names = <<>> THEN at' = "exit" /\ code' = 1
     ELSE at' = "arguments" /\ UNCHANGED code
  /\ UNCHANGED <<linked, failing, words, fresh, chosen, alive, traceFile, stats, asked>>

-----------------------------------------------------------------------------
(* process_arguments *)

Argument(word) ==
  /\ at = "arguments" /\ fresh = "none" /\ words # <<>> /\ Head(words) = word
  /\ UNCHANGED <<linked, registry, failing, asked>>

Exit(n) ==
  /\ at' = "exit" /\ code' = n
  /\ UNCHANGED <<words, fresh, chosen, alive, traceFile, stats>>

GoOn(n) ==
  /\ words' = SubSeq(words, n + 1, Len(words))
  /\ UNCHANGED <<at, code>>

AskHelp  == Argument(Help) /\ Exit(0)
AskStats == Argument(Stats) /\ GoOn(1) /\ stats' = TRUE /\ UNCHANGED <<fresh, chosen, alive, traceFile>>

(* setup_trace_path takes the next argument, whatever it is. *)
TraceNoPath   == Argument(Trace) /\ (Len(words) = 1 \/ (Len(words) > 1 /\ words[2] = "")) /\ Exit(2)
TraceCannot   == Argument(Trace) /\ Len(words) > 1 /\ words[2] = "unwritable" /\ Exit(1)

(* Bug: the path is looked at again as an argument. *)
Bug_TraceTo(path) ==
  /\ Argument(Trace) /\ Len(words) > 1 /\ words[2] = path /\ path \notin {"", "unwritable"}
  /\ traceFile' = path
  /\ GoOn(1)
  /\ UNCHANGED <<fresh, chosen, alive, stats>>

TraceTo(path) ==
  /\ Argument(Trace) /\ Len(words) > 1 /\ words[2] = path /\ path \notin {"", "unwritable"}
  /\ traceFile' = path
  /\ GoOn(2)
  /\ UNCHANGED <<fresh, chosen, alive, stats>>

(* available.is *)
Is(name) == \E i \in DOMAIN registry.names : registry.names[i] = name

(* machine::create: the constructor in the place of the first such name. *)
Constructor(name) ==
  registry.constructors[Min({i \in DOMAIN registry.names : registry.names[i] = name})]

Pick(name) == Argument(name) /\ name \notin {Help, Trace, Stats}

(* create returns the new machine, while the one picked before is there. *)
CreateMachine(name) ==
  /\ Pick(name) /\ Is(name) /\ name \notin failing
  /\ fresh' = Constructor(name) /\ alive' = alive + 1
  /\ UNCHANGED <<words, at, chosen, traceFile, stats, code>>

(* Bug: the machine picked before is not deleted. *)
Bug_ResetMachine ==
  /\ fresh # "none"
  /\ chosen' = fresh /\ fresh' = "none"
  /\ GoOn(1) /\ UNCHANGED <<linked, registry, failing, alive, traceFile, stats, asked>>

(* machine.reset takes the new machine and deletes the one picked before. *)
ResetMachine ==
  /\ fresh # "none"
  /\ chosen' = fresh /\ fresh' = "none"
  /\ alive' = IF chosen = "none" THEN alive ELSE alive - 1
  /\ GoOn(1) /\ UNCHANGED <<linked, registry, failing, traceFile, stats, asked>>

(* The exception is reported; a machine picked before is still there. *)
PickKeeps(name) ==
  /\ Pick(name) /\ Is(name) /\ name \in failing /\ chosen # "none"
  /\ GoOn(1) /\ UNCHANGED <<fresh, chosen, alive, traceFile, stats>>

PickFails(name) == Pick(name) /\ Is(name) /\ name \in failing /\ chosen = "none" /\ Exit(1)

PickUnknown(name) ==
  /\ Pick(name) /\ ~Is(name)
  /\ GoOn(1) /\ UNCHANGED <<fresh, chosen, alive, traceFile, stats>>

NoMachine ==
  /\ at = "arguments" /\ words = <<>> /\ chosen = "none"
  /\ Exit(2)
  /\ UNCHANGED <<linked, registry, failing, asked>>

-----------------------------------------------------------------------------
(* main enables the trace and calls run. *)
Run ==
  /\ at = "arguments" /\ words = <<>> /\ chosen # "none"
  /\ at' = "run"
  /\ UNCHANGED <<linked, registry, failing, words, fresh, chosen, alive, traceFile, stats, code, asked>>

RunReturns ==
  /\ at = "run"
  /\ at' = "exit" /\ code' = 0
  /\ UNCHANGED <<linked, registry, failing, words, fresh, chosen, alive, traceFile, stats, asked>>

(* The destructors of static objects. *)
DeleteMachine ==
  /\ at = "exit" /\ chosen # "none"
  /\ chosen' = "none" /\ alive' = alive - 1
  /\ UNCHANGED <<linked, registry, failing, words, at, fresh, traceFile, stats, code, asked>>

(* ~destroyer *)
DeleteRegistry ==
  /\ at = "exit" /\ registry.made
  /\ registry' = [made |-> FALSE, names |-> <<>>, constructors |-> <<>>]
  /\ UNCHANGED <<linked, failing, words, at, fresh, chosen, alive, traceFile, stats, code, asked>>

Gone ==
  /\ at = "exit" /\ chosen = "none" /\ ~registry.made
  /\ at' = "done"
  /\ UNCHANGED <<linked, registry, failing, words, fresh, chosen, alive, traceFile, stats, code, asked>>

ProcessArguments ==
  \/ AskHelp \/ AskStats \/ TraceNoPath \/ TraceCannot
  \/ \E word \in Words :
       \/ TraceTo(word)
       \/ CreateMachine(word) \/ PickKeeps(word) \/ PickFails(word) \/ PickUnknown(word)
  \/ ResetMachine \/ NoMachine

BeforeAndAfter ==
  \/ EnterMain \/ \E name \in Names : Registrar(name)
  \/ DeleteMachine \/ DeleteRegistry \/ Gone

LNext == ProcessArguments \/ BeforeAndAfter \/ Run \/ RunReturns

LSpec == LInit /\ [][LNext]_lvars

-----------------------------------------------------------------------------
(* In whatever order the registrars ran, and whichever constructors fail:  *)
(* what runs, what it is traced to and how the process ends is what the    *)
(* arguments ask for.  A machine whose constructor throws leaves the one   *)
(* that was picked before it (main.cc:77-86).                              *)
RunsWhatWasAsked ==
  /\ at = "run" => asked = [code |-> 0, machine |-> chosen, trace |-> traceFile, stats |-> stats]
  /\ at \in {"exit", "done"} => code = asked.code

(* A second machine is there only while one picked before is replaced, and *)
(* none but the last picked is left to run; in the end neither a machine   *)
(* nor the registry is left.                                               *)
NothingLeaks ==
  /\ alive = (IF chosen = "none" THEN 0 ELSE 1) + (IF fresh = "none" THEN 0 ELSE 1)
  /\ fresh # "none" => at = "arguments"
  /\ at = "done" => alive = 0 /\ ~registry.made
=============================================================================
