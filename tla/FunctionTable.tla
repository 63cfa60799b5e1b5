--------------------------- MODULE FunctionTable ---------------------------
(***************************************************************************)
(* Translating each guest function once (cpu/entry_table.cc, module.cc,    *)
(* symbol.h, and ResolveFunction, LookupFunction, DemandFunction and       *)
(* RemoveModule of cpu/processor.cc).  A function has an entry in the      *)
(* table, whose status says whether it can be called, and a symbol in its  *)
(* module, whose status says how far it is translated.  Both are found     *)
(* under the global critical region, and their statuses are then written   *)
(* without it.  Threads that find either in the making spin.               *)
(***************************************************************************)
EXTENDS Naturals, FiniteSets

CONSTANTS
  Resolvers,   \* the threads
  Functions,   \* guest functions, known by their addresses
  NoFunction,
  Calls,       \* Calls[f]: the functions that the code of f calls
  MaxUnloads   \* bound: how often the module is removed

ASSUME FunctionsAssumption ==
  NoFunction \notin Functions /\ Calls \in [Functions -> SUBSET Functions]

VARIABLES
  entry,        \* entry[f]: the status of its entry, or "none"
  callable,     \* callable[f]: its entry's function is set
  symbol,       \* symbol[f]: the status of its symbol, or "none"
  functionAt,   \* functionAt[t]: where thread t is
  resolving,    \* resolving[t]: the function it resolves
  callees,      \* callees[t]: what the translator has yet to look up
  declaring,    \* declaring[t]: the one it declares
  unloads,
  early         \* the functions whose symbol a thread that resolved them found
                \* in the making, by a thread that declared them (history)

table == <<entry, callable, symbol>>
threads == <<functionAt, resolving, callees, declaring>>
functionVars == <<table, threads, unloads, early>>

FunctionsInit ==
  /\ entry = [f \in Functions |-> "none"]
  /\ callable = [f \in Functions |-> FALSE]
  /\ symbol = [f \in Functions |-> "none"]
  /\ functionAt = [t \in Resolvers |-> "guest"]
  /\ resolving = [t \in Resolvers |-> NoFunction]
  /\ callees = [t \in Resolvers |-> {}]
  /\ declaring = [t \in Resolvers |-> NoFunction]
  /\ unloads = 0 /\ early = {}

ResolverGoes(t, from, to) == functionAt[t] = from /\ functionAt' = [functionAt EXCEPT ![t] = to]

Mark(f, status) == symbol' = [symbol EXCEPT ![f] = status]

-----------------------------------------------------------------------------
(* EntryTable::GetOrCreate. *)

\* Mutant: one that is translated is taken for one that is not known.
CompilingIsNew == {"none", "compiling"}

IsNew == {"none"}

GetOrCreate(t, f) ==
  /\ functionAt[t] = "guest"
  /\ resolving' = [resolving EXCEPT ![t] = f]
  /\ \/ /\ entry[f] \in IsNew
        /\ entry' = [entry EXCEPT ![f] = "compiling"]
        /\ functionAt' = [functionAt EXCEPT ![t] = "declare"]
     \/ /\ entry[f] \notin IsNew
        /\ functionAt' = [functionAt EXCEPT ![t] =
             IF entry[f] = "compiling" THEN "spin" ELSE "use"]
        /\ UNCHANGED entry
  /\ UNCHANGED <<callable, symbol, callees, declaring, unloads, early>>

Spin(t) ==
  /\ ResolverGoes(t, "spin", "use")
  /\ entry[resolving[t]] # "compiling"
  /\ UNCHANGED <<table, resolving, callees, declaring, unloads, early>>

(* The thread calls the function, or reports that there is none. *)
Use(t) ==
  /\ ResolverGoes(t, "use", "guest")
  /\ resolving' = [resolving EXCEPT ![t] = NoFunction]
  /\ UNCHANGED <<table, callees, declaring, unloads, early>>

-----------------------------------------------------------------------------
(* LookupFunction.  A symbol is made in the status that says that it is     *)
(* being defined; the caller declares it, which cannot fail                  *)
(* (PPCFrontend::DeclareFunction), and then says so.                         *)

Declare(t) ==
  LET f == resolving[t] IN
  /\ functionAt[t] = "declare"
  /\ \/ /\ symbol[f] = "none"
        /\ Mark(f, "defining")
        /\ ResolverGoes(t, "declare", "declared")
     \/ /\ symbol[f] # "none"
        /\ ResolverGoes(t, "declare", "define")
        /\ UNCHANGED symbol
  /\ UNCHANGED <<entry, callable, resolving, callees, declaring, unloads, early>>

(* There is no module with the address, or it has a variable there.          *)
NotFound(t) ==
  /\ ResolverGoes(t, "declare", "fail")
  /\ symbol[resolving[t]] = "none"
  /\ UNCHANGED <<table, resolving, callees, declaring, unloads, early>>

Declared(t) ==
  /\ ResolverGoes(t, "declared", "define")
  /\ Mark(resolving[t], "declared")
  /\ UNCHANGED <<entry, callable, resolving, callees, declaring, unloads, early>>

-----------------------------------------------------------------------------
(* DemandFunction, with Module::DefineSymbol.                               *)

Define(t) ==
  LET f == resolving[t] IN
  /\ functionAt[t] = "define"
  /\ \/ /\ symbol[f] = "declared"
        /\ Mark(f, "defining")
        /\ callees' = [callees EXCEPT ![t] = Calls[f]]
        /\ ResolverGoes(t, "define", "translate")
        /\ UNCHANGED early
     \/ /\ symbol[f] # "declared"
        /\ ResolverGoes(t, "define", IF symbol[f] = "defining" THEN "await"
                             ELSE IF symbol[f] = "failed" THEN "fail" ELSE "publish")
        /\ early' = early \cup (IF symbol[f] = "defining" THEN {f} ELSE {})
        /\ UNCHANGED <<symbol, callees>>
  /\ UNCHANGED <<entry, callable, resolving, declaring, unloads>>

Await(t) ==
  /\ functionAt[t] = "await"
  /\ symbol[resolving[t]] # "defining"
  /\ ResolverGoes(t, "await", IF symbol[resolving[t]] = "failed" THEN "fail" ELSE "publish")
  /\ UNCHANGED <<table, resolving, callees, declaring, unloads, early>>

(* The translator looks up what the code calls, which declares it if there   *)
(* is a module for it.                                                       *)
LookUpCallee(t) ==
  /\ functionAt[t] = "translate"
  /\ \E f \in callees[t] :
       /\ callees' = [callees EXCEPT ![t] = callees[t] \ {f}]
       /\ \/ /\ symbol[f] = "none"
             /\ Mark(f, "defining")
             /\ declaring' = [declaring EXCEPT ![t] = f]
             /\ functionAt' = [functionAt EXCEPT ![t] = "declareCallee"]
          \/ UNCHANGED <<symbol, declaring, functionAt>>
  /\ UNCHANGED <<entry, callable, resolving, unloads, early>>

DeclareCallee(t) ==
  /\ ResolverGoes(t, "declareCallee", "translate")
  /\ Mark(declaring[t], "declared")
  /\ declaring' = [declaring EXCEPT ![t] = NoFunction]
  /\ UNCHANGED <<entry, callable, resolving, callees, unloads, early>>

Translate(t) ==
  /\ functionAt[t] = "translate" /\ callees[t] = {}
  /\ \/ ResolverGoes(t, "translate", "publish") /\ Mark(resolving[t], "defined")
     \/ ResolverGoes(t, "translate", "fail") /\ Mark(resolving[t], "failed")
  /\ UNCHANGED <<entry, callable, resolving, callees, declaring, unloads, early>>

-----------------------------------------------------------------------------
(* The end of ResolveFunction, without the lock.                            *)

Publish(t) ==
  /\ ResolverGoes(t, "publish", "ready")
  /\ callable' = [callable EXCEPT ![resolving[t]] = TRUE]
  /\ UNCHANGED <<entry, symbol, resolving, callees, declaring, unloads, early>>

Ready(t) ==
  /\ ResolverGoes(t, "ready", "use")
  /\ entry' = [entry EXCEPT ![resolving[t]] = "ready"]
  /\ UNCHANGED <<callable, symbol, resolving, callees, declaring, unloads, early>>

\* Mutant: the entry of a function that could not be translated is left.
FailSilently(t) ==
  /\ ResolverGoes(t, "fail", "use")
  /\ UNCHANGED <<table, resolving, callees, declaring, unloads, early>>

Fail(t) ==
  /\ ResolverGoes(t, "fail", "use")
  /\ entry' = [entry EXCEPT ![resolving[t]] = "failed"]
  /\ UNCHANGED <<callable, symbol, resolving, callees, declaring, unloads, early>>

-----------------------------------------------------------------------------
(* RemoveModule, when the title that was running has ended: the symbols go   *)
(* with the module, and the entries of those that had one are deleted.       *)

\* Mutant: the entries stay.
NoEntries == {}

AddressedFunctions == {f \in Functions : symbol[f] # "none"}

RemoveModule ==
  /\ unloads < MaxUnloads
  /\ \A t \in Resolvers : functionAt[t] = "guest"
  /\ symbol' = [f \in Functions |-> "none"]
  /\ entry' = [f \in Functions |-> IF f \in AddressedFunctions THEN "none" ELSE entry[f]]
  /\ callable' = [f \in Functions |-> callable[f] /\ f \notin AddressedFunctions]
  /\ unloads' = unloads + 1 /\ early' = {}
  /\ UNCHANGED threads

-----------------------------------------------------------------------------
Resolve(t) ==
  \/ Spin(t) \/ Use(t) \/ Declare(t) \/ NotFound(t) \/ Declared(t) \/ Define(t)
  \/ Await(t) \/ LookUpCallee(t) \/ DeclareCallee(t) \/ Translate(t)
  \/ Publish(t) \/ Ready(t) \/ Fail(t)

FunctionsNext ==
  \/ \E t \in Resolvers : Resolve(t) \/ \E f \in Functions : GetOrCreate(t, f)
  \/ RemoveModule

FunctionsSpec == FunctionsInit /\ [][FunctionsNext]_functionVars

(* The scheduler runs every thread, and translating ends.                    *)
FunctionsFairSpec == FunctionsSpec /\ \A t \in Resolvers : WF_functionVars(Resolve(t))

-----------------------------------------------------------------------------
(* Properties. *)

\* What the table says is ready can be called: the function of its entry is
\* set, its code has been translated, and it has not gone with the module.  One
\* race escapes this: a thread that resolves a function while another declares
\* it publishes it as it is after that, with no code.
ReadyIsCallable ==
  \A f \in Functions : entry[f] = "ready" =>
    /\ callable[f]
    /\ symbol[f] = "defined" \/ (symbol[f] = "declared" /\ f \in early)

\* What the table says is ready has been translated ("only add it to the list of
\* resolved functions if resolving succeeded", processor.cc:270).
ReadyIsDefined == \A f \in Functions : entry[f] = "ready" => symbol[f] = "defined"

\* Whoever resolves a function gets an answer: neither of the two spins lasts.
ResolvedInTheEnd ==
  \A t \in Resolvers : functionAt[t] # "guest" ~> functionAt[t] = "use"

\* An entry that is in the making has one thread at work on it, for which the
\* others spin; nobody works on one that is done.
OneMaker ==
  \A f \in Functions :
    Cardinality({t \in Resolvers : resolving[t] = f /\ functionAt[t] \notin {"spin", "use"}})
      = IF entry[f] = "compiling" THEN 1 ELSE 0

\* Together: an entry says truly whether it is in the making, and, but for that
\* race, whether it can be called.
EntriesAreRight == OneMaker /\ ReadyIsCallable

=============================================================================
