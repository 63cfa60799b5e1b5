---------------------------- MODULE ObjectTable ----------------------------
(***************************************************************************)
(* The kernel's handles: the guest half of util/object_table.cc, the       *)
(* reference counts of xobject.cc, and the guest calls that use them       *)
(* (NtCreateEvent, NtClose, NtDuplicateObject, ObReferenceObjectByHandle,  *)
(* ObDereferenceObject).                                                   *)
(*                                                                         *)
(* An object counts pointers: one for each of its handles in the table and *)
(* one for each object_ref of a thread.  A handle counts its own uses.     *)
(* The table's operations run under the global lock and are one step each; *)
(* a guest call is the sequence of operations that the thread has to do,   *)
(* and XObject's own look at handles_ takes no lock.                       *)
(***************************************************************************)
EXTENDS Naturals, Sequences, FiniteSets

CONSTANTS
  Threads,
  Objects,    \* the objects that may be created
  NoObject,
  Names,      \* the names an object may be created with
  NoName,
  Capacity,   \* table_capacity_: the table is as large as after it first grew
  NoHandle,   \* not a handle
  Titles,     \* the guests: what a title calls from which threads, how it names
              \* its objects, and whether it is careful (see Spared)
  MaxUses     \* bound: how often the guest opens a handle or references an object

Slots == 0 .. Capacity - 1
GuestCalls == {"create", "duplicate", "move", "reference", "open", "find", "purge"}

ASSUME ObjectAssumption ==
  /\ IsFiniteSet(Threads)
  /\ NoObject \notin Objects /\ NoName \notin Names
ASSUME TableAssumption ==
  /\ Capacity \in Nat \ {0} /\ NoHandle \notin Slots /\ MaxUses \in Nat
ASSUME TitleAssumption ==
  Titles \subseteq [calls : SUBSET GuestCalls, threads : SUBSET Threads,
                    names : [Objects -> Names \union {NoName}], careful : BOOLEAN]

VARIABLES
  title,     \* the title that was launched, of Titles; it stays the same
  table,     \* table_: the object of each slot, and its handle_ref_count
  lastFree,  \* last_free_entry_
  handles,   \* handles[o]: handles_
  pointers,  \* pointers[o]: pointer_ref_count_
  stash,     \* stash[o]: the handle in the guest structure of the object
  names,     \* names[n]: name_table_
  todo,      \* todo[t]: what is left of the call of thread t
  local,     \* local[t]: the handle and the name it was called with, its
             \* object_ref and its X_HANDLE
  owned,     \* owned[h]: how often the guest may still close h (history)
  denotes,   \* denotes[h]: the object the guest was given h for (history)
  derefs     \* derefs[o]: the references the guest took and still has (history)

kernel == <<table, lastFree, handles, pointers, stash, names>>
calls == <<todo, local>>
guest == <<owned, denotes, derefs>>
vars == <<title, kernel, calls, guest>>

Calls == title.calls
CarefulGuest == title.careful
NameOf == title.names

NoLocals == [argument |-> NoHandle, name |-> NoName, object |-> NoObject,
             handle |-> NoHandle]
Free == [object |-> NoObject, refs |-> 0]

Init ==
  /\ title \in Titles
  /\ table = [h \in Slots |-> Free]
  /\ lastFree = 0
  /\ handles = [o \in Objects |-> <<>>]
  /\ pointers = [o \in Objects |-> 0]
  /\ stash = [o \in Objects |-> NoHandle]
  /\ names = [n \in Names |-> NoHandle]
  /\ todo = [t \in Threads |-> <<>>]
  /\ local = [t \in Threads |-> NoLocals]
  /\ owned = [h \in Slots |-> 0]
  /\ denotes = [h \in Slots |-> NoObject]
  /\ derefs = [o \in Objects |-> 0]

At(t, op) == todo[t] # <<>> /\ Head(todo[t]) = op
Continue(t) == todo' = [todo EXCEPT ![t] = Tail(@)]
Keep(t, h) == local' = [local EXCEPT ![t].handle = h]

-----------------------------------------------------------------------------
(* What the operations of the table do, under the lock. *)

(* FindFreeSlot scans from last_free_entry_ on, around the table.           *)
Distance(h) == (h + Capacity - lastFree) % Capacity

IsFreeSlot(h) ==
  /\ table[h].object = NoObject
  /\ \A g \in Slots : Distance(g) < Distance(h) => table[g].object # NoObject

\* Mutant: the new handle is retained on top of the count it starts with.
InsertRetained(o, h) ==
  /\ table' = [table EXCEPT ![h] = [object |-> o, refs |-> 2]]
  /\ handles' = [handles EXCEPT ![o] = Append(@, h)]

Insert(o, h) ==
  /\ table' = [table EXCEPT ![h] = [object |-> o, refs |-> 1]]
  /\ handles' = [handles EXCEPT ![o] = Append(@, h)]

\* The list of handles without the first occurrence of one.
Without(hs, h) ==
  LET places == {i \in DOMAIN hs : hs[i] = h}
      first == CHOOSE i \in places : \A j \in places : i <= j
  IN  IF places = {} THEN hs ELSE SubSeq(hs, 1, first - 1) \o SubSeq(hs, first + 1, Len(hs))

(* RemoveHandle: the entry, the handle in the object's list, the name of    *)
(* the object, and the pointer.                                             *)
Remove(h) ==
  LET o == table[h].object
  IN  /\ table' = [table EXCEPT ![h] = Free]
      /\ lastFree' = h
      /\ handles' = [handles EXCEPT ![o] = Without(@, h)]
      /\ names' = [n \in Names |-> IF n = NameOf[o] THEN NoHandle ELSE names[n]]
      /\ pointers' = [pointers EXCEPT ![o] = @ - 1]

\* Mutant: retaining a handle does nothing.
RetainNothing(h) == UNCHANGED table

(* The count of a slot that is free is never looked at: AddHandle sets it.  *)
Retain(h) ==
  table' = [table EXCEPT ![h].refs = IF table[h].object = NoObject THEN @ ELSE @ + 1]

\* Mutant: closing a handle removes it, whatever its count is.
ReleaseAll(h) ==
  IF table[h].object = NoObject
  THEN UNCHANGED <<table, lastFree, handles, names, pointers>>
  ELSE Remove(h)

Release(h) ==
  \/ /\ table[h].refs = 1
     /\ Remove(h)
  \/ /\ table[h].refs # 1
     /\ table' = [table EXCEPT ![h].refs = IF table[h].object = NoObject THEN @ ELSE @ - 1]
     /\ UNCHANGED <<lastFree, handles, names, pointers>>

-----------------------------------------------------------------------------
(* The operations a call consists of. *)

(* A handle that denotes nothing ends the call, except that the source of   *)
(* NtDuplicateObject is removed all the same, and that the search for a     *)
(* named object has then found none and creates one.                        *)
Abandoned(t) ==
  IF \E i \in DOMAIN todo[t] : todo[t][i] = "RemoveHandle" THEN <<"RemoveHandle">> ELSE <<>>

LookupObject(t) ==
  /\ At(t, "LookupObject")
  /\ LET o == table[local[t].argument].object
     IN  \/ /\ o # NoObject
            /\ local' = [local EXCEPT ![t].object = o]
            /\ pointers' = [pointers EXCEPT ![o] = @ + 1]
            /\ Continue(t)
         \/ /\ o = NoObject
            /\ local[t].name = NoName
            /\ local' = [local EXCEPT ![t] = IF Abandoned(t) = <<>> THEN NoLocals ELSE @]
            /\ todo' = [todo EXCEPT ![t] = Abandoned(t)]
            /\ UNCHANGED pointers
         \/ /\ o = NoObject
            /\ local[t].name # NoName
            /\ todo' = [todo EXCEPT ![t] = <<"New">>]
            /\ UNCHANGED <<local, pointers>>
  /\ UNCHANGED <<table, lastFree, handles, stash, names, guest>>

(* XObject::RetainHandle and ReleaseHandle look for the object's first      *)
(* handle; without one they do nothing.                                     *)
ReadHandle(t) ==
  /\ At(t, "ReadHandle")
  /\ LET hs == handles[local[t].object]
     IN  \/ /\ hs # <<>>
            /\ Keep(t, Head(hs))
            /\ Continue(t)
         \/ /\ hs = <<>>
            /\ todo' = [todo EXCEPT ![t] = Tail(Tail(@))]
            /\ UNCHANGED local
  /\ UNCHANGED <<kernel, guest>>

RetainHandle(t) ==
  /\ At(t, "RetainHandle")
  /\ Retain(local[t].handle)
  /\ Continue(t)
  /\ UNCHANGED <<lastFree, handles, pointers, stash, names, local, guest>>

ReleaseHandle(t) ==
  /\ At(t, "ReleaseHandle")
  /\ Release(local[t].handle)
  /\ Continue(t)
  /\ UNCHANGED <<stash, local, guest>>

AddHandle(t) ==
  \E h \in Slots :
    /\ At(t, "AddHandle")
    /\ IsFreeSlot(h)
    /\ Insert(local[t].object, h)
    /\ pointers' = [pointers EXCEPT ![local[t].object] = @ + 1]
    /\ Keep(t, h)
    /\ Continue(t)
    /\ UNCHANGED <<lastFree, stash, names, guest>>

(* XObject::handle: the first handle, which is added if there is none.      *)
Handle(t) ==
  /\ At(t, "handle")
  /\ LET hs == handles[local[t].object]
     IN  \/ /\ hs # <<>>
            /\ Keep(t, Head(hs))
            /\ Continue(t)
         \/ /\ hs = <<>>
            /\ todo' = [todo EXCEPT ![t] = <<"AddHandle", "FirstHandle">> \o Tail(@)]
            /\ UNCHANGED local
  /\ UNCHANGED <<kernel, guest>>

(* Its return statement reads the list again. *)
FirstHandle(t) ==
  /\ At(t, "FirstHandle")
  /\ LET hs == handles[local[t].object]
     IN  Keep(t, IF hs = <<>> THEN NoHandle ELSE Head(hs))
  /\ Continue(t)
  /\ UNCHANGED <<kernel, guest>>

\* Mutant: the reference that LookupObject took is not given back.
DropUnreleased(t) ==
  /\ local' = [local EXCEPT ![t] = IF Len(todo[t]) = 1 THEN NoLocals
                                   ELSE [@ EXCEPT !.object = NoObject]]
  /\ UNCHANGED pointers

(* The object_ref of the call goes out of scope, and at the end of the call *)
(* everything else does.                                                    *)
Drop(t) ==
  /\ pointers' = [pointers EXCEPT ![local[t].object] = @ - 1]
  /\ local' = [local EXCEPT ![t] = IF Len(todo[t]) = 1 THEN NoLocals
                                   ELSE [@ EXCEPT !.object = NoObject]]

(* The guest gets the handle. *)
GiveHandle(t) ==
  /\ At(t, "GiveHandle")
  /\ LET h == local[t].handle
     IN  \/ /\ h # NoHandle
            /\ owned' = [owned EXCEPT ![h] = @ + 1]
            /\ denotes' = [denotes EXCEPT ![h] = local[t].object]
         \/ /\ h = NoHandle
            /\ UNCHANGED <<owned, denotes>>
  /\ Drop(t)
  /\ Continue(t)
  /\ UNCHANGED <<table, lastFree, handles, stash, names, derefs>>

(* The guest gets the pointer to the object's structure. *)
GivePointer(t) ==
  /\ At(t, "GivePointer")
  /\ derefs' = [derefs EXCEPT ![local[t].object] = @ + 1]
  /\ Drop(t)
  /\ Continue(t)
  /\ UNCHANGED <<table, lastFree, handles, stash, names, owned, denotes>>

DropObject(t) ==
  /\ At(t, "DropObject")
  /\ Drop(t)
  /\ Continue(t)
  /\ UNCHANGED <<table, lastFree, handles, stash, names, guest>>

(* The source of NtDuplicateObject is removed, whatever its count is.       *)
RemoveHandle(t) ==
  /\ At(t, "RemoveHandle")
  /\ LET h == local[t].argument
     IN  \/ /\ table[h].object # NoObject
            /\ Remove(h)
         \/ /\ table[h].object = NoObject
            /\ UNCHANGED <<table, lastFree, handles, names, pointers>>
  /\ local' = [local EXCEPT ![t] = NoLocals]
  /\ Continue(t)
  /\ UNCHANGED <<stash, guest>>

(* A new object, its structure and its first handle.                        *)
New(t) ==
  \E o \in Objects, h \in Slots :
    /\ At(t, "New")
    /\ stash[o] = NoHandle /\ NameOf[o] = local[t].name
    /\ IsFreeSlot(h)
    /\ Insert(o, h)
    /\ stash' = [stash EXCEPT ![o] = h]
    /\ pointers' = [pointers EXCEPT ![o] = 2]
    /\ local' = [local EXCEPT ![t].object = o]
    /\ todo' = [todo EXCEPT ![t] =
                  (IF local[t].name = NoName THEN <<>> ELSE <<"AddNameMapping">>)
                    \o <<"handle", "GiveHandle">>]
    /\ UNCHANGED <<lastFree, names, guest>>

(* SetAttributes.  That the name exists is reported, and not looked at.     *)
AddNameMapping(t) ==
  /\ At(t, "AddNameMapping")
  /\ LET hs == handles[local[t].object]
     IN  names' = [names EXCEPT ![local[t].name] =
                     IF @ = NoHandle /\ hs # <<>> THEN Head(hs) ELSE @]
  /\ Continue(t)
  /\ UNCHANGED <<table, lastFree, handles, pointers, stash, local, guest>>

-----------------------------------------------------------------------------
(* The calls of the guest. *)

Idle(t) == todo[t] = <<>>

\* Bound: a handle whose uses leak is retained no more than this often.
FewUses(h) == table[h].refs < 3 * MaxUses
Mapped(n) == IF n = NoName THEN FALSE ELSE names[n] # NoHandle

\* GetObjectByName retains the first handle of the object the name leads to.
\* An object with no handle left cannot be named: RemoveHandle unmaps it.
RetainNamed(n) ==
  LET o == table[names[n]].object
  IN  IF o = NoObject THEN UNCHANGED table ELSE Retain(Head(handles[o]))

(* NtCreateEvent.  GetObjectByName retains the object it finds; the search  *)
(* gives that up and the caller retains it again.                           *)
Create(t) ==
  \E n \in Names \union {NoName} :
    /\ "create" \in Calls /\ Idle(t)
    /\ \A h \in Slots : owned[h] < MaxUses /\ FewUses(h)
    /\ \/ /\ Mapped(n)
          /\ RetainNamed(n)
          /\ local' = [local EXCEPT ![t] =
                         [NoLocals EXCEPT !.name = n, !.argument = names[n]]]
          /\ todo' = [todo EXCEPT ![t] =
                        <<"LookupObject", "ReadHandle", "ReleaseHandle", "ReadHandle",
                          "RetainHandle", "handle", "GiveHandle">>]
       \/ /\ ~Mapped(n)
          /\ \E o \in Objects : stash[o] = NoHandle /\ NameOf[o] = n
          /\ local' = [local EXCEPT ![t].name = n]
          /\ todo' = [todo EXCEPT ![t] = <<"New">>]
          /\ UNCHANGED table
    /\ UNCHANGED <<lastFree, handles, pointers, stash, names, guest>>

Named == \E o \in Objects : NameOf[o] # NoName

(* A careful guest does not give up its last use of a handle that a call is *)
(* given or has found by its name; nor, if it names objects, that of one    *)
(* whose object it still references.                                        *)
Spared(h) ==
  CarefulGuest /\ owned[h] = 1 =>
    /\ \A t \in Threads : Idle(t) \/ local[t].argument # h
    /\ Named => \A o \in Objects : o = table[h].object => derefs[o] = 0

(* NtClose. *)
Close(t) ==
  \E h \in Slots :
    /\ Idle(t) /\ owned[h] > 0 /\ Spared(h)
    /\ owned' = [owned EXCEPT ![h] = @ - 1]
    /\ Release(h)
    /\ UNCHANGED <<stash, calls, denotes, derefs>>

Call(t, h, ops) ==
  /\ Idle(t) /\ owned[h] > 0
  /\ todo' = [todo EXCEPT ![t] = ops]
  /\ local' = [local EXCEPT ![t].argument = h]
  /\ UNCHANGED <<kernel, denotes, derefs>>

(* NtDuplicateObject, ... *)
Duplicate(t) ==
  \E h \in Slots :
    /\ "duplicate" \in Calls
    /\ Call(t, h, <<"LookupObject", "AddHandle", "GiveHandle">>)
    /\ UNCHANGED owned

(* ... and with DUPLICATE_CLOSE_SOURCE. *)
Move(t) ==
  \E h \in Slots :
    /\ "move" \in Calls /\ Spared(h)
    /\ Call(t, h, <<"LookupObject", "AddHandle", "GiveHandle", "RemoveHandle">>)
    /\ owned' = [owned EXCEPT ![h] = @ - 1]

(* ObReferenceObjectByHandle. *)
Reference(t) ==
  \E h \in Slots :
    /\ "reference" \in Calls
    /\ owned[h] > 0 /\ FewUses(h)
    /\ \A o \in Objects : o = table[h].object => derefs[o] < MaxUses
    /\ Call(t, h, <<"LookupObject", "ReadHandle", "RetainHandle", "GivePointer">>)
    /\ UNCHANGED owned

(* ObReferenceObjectByName: as by handle, with the one that was retained.   *)
ReferenceByName(t) ==
  \E n \in Names :
    /\ "find" \in Calls /\ Idle(t) /\ Mapped(n)
    /\ FewUses(names[n]) /\ \A o \in Objects : derefs[o] < MaxUses
    /\ RetainNamed(n)
    /\ local' = [local EXCEPT ![t].argument = names[n]]
    /\ todo' = [todo EXCEPT ![t] =
                  <<"LookupObject", "ReadHandle", "RetainHandle", "GivePointer">>]
    /\ UNCHANGED <<lastFree, handles, pointers, stash, names, guest>>

(* ObOpenObjectByName. *)
OpenByName(t) ==
  \E n \in Names :
    /\ "open" \in Calls /\ Idle(t) /\ Mapped(n)
    /\ owned[names[n]] < MaxUses /\ FewUses(names[n])
    /\ RetainNamed(n)
    /\ owned' = [owned EXCEPT ![names[n]] = @ + 1]
    /\ denotes' = [denotes EXCEPT ![names[n]] = table[names[n]].object]
    /\ UNCHANGED <<lastFree, handles, pointers, stash, names, calls, derefs>>

(* ObDereferenceObject: GetNativeObject looks up the stashed handle.        *)
Dereference(t) ==
  \E o \in Objects :
    /\ Idle(t) /\ derefs[o] > 0
    /\ derefs' = [derefs EXCEPT ![o] = @ - 1]
    /\ local' = [local EXCEPT ![t].argument = stash[o]]
    /\ todo' = [todo EXCEPT ![t] =
                  <<"LookupObject", "ReadHandle", "ReleaseHandle", "DropObject">>]
    /\ UNCHANGED <<kernel, owned, denotes>>

(* TerminateTitle kills the guest's threads and then purges the table.      *)
PurgeAllObjects ==
  /\ "purge" \in Calls
  /\ \A t \in Threads : Idle(t)
  /\ pointers' = [o \in Objects |->
                    pointers[o] - Cardinality({h \in Slots : table[h].object = o})]
  /\ table' = [h \in Slots |-> Free]
  /\ owned' = [h \in Slots |-> 0]
  /\ derefs' = [o \in Objects |-> 0]
  /\ UNCHANGED <<lastFree, handles, stash, names, calls, denotes>>

-----------------------------------------------------------------------------
Operation(t) ==
  \/ LookupObject(t) \/ ReadHandle(t) \/ RetainHandle(t) \/ ReleaseHandle(t)
  \/ RemoveHandle(t) \/ AddHandle(t) \/ Handle(t) \/ FirstHandle(t) \/ GiveHandle(t)
  \/ GivePointer(t) \/ DropObject(t) \/ New(t) \/ AddNameMapping(t)

GuestCall(t) ==
  \/ Create(t) \/ Close(t) \/ Duplicate(t) \/ Move(t) \/ OpenByName(t)
  \/ Reference(t) \/ ReferenceByName(t) \/ Dereference(t)

Next ==
  /\ PurgeAllObjects \/ \E t \in title.threads : Operation(t) \/ GuestCall(t)
  /\ UNCHANGED title

Spec == Init /\ [][Next]_vars

-----------------------------------------------------------------------------
(* Properties. *)

\* An object's pointer count is the number of its handles in the table plus
\* the number of threads that hold it: it is deleted when, and only when,
\* nothing leads to it any more.
PointersCounted ==
  \A o \in Objects :
    pointers[o] = Cardinality({h \in DOMAIN table : table[h].object = o})
                  + Cardinality({t \in DOMAIN local : local[t].object = o})

\* An object that is deleted has no handles left: the assertion of its
\* destructor holds.
DeletedWithoutHandles ==
  \A o \in Objects : pointers[o] = 0 => handles[o] = <<>>

\* A handle the guest may use denotes the object it was given it for, whatever
\* other threads close, duplicate or reference meanwhile.
HandleDenotes ==
  \A h \in Slots : owned[h] > 0 => table[h].object = denotes[h]

\* Nothing leaks: when no call is in progress, a handle is in the table as
\* often as the guest may close it and, for an object's first handle, has
\* pointers to give up.
NothingLeaks ==
  (\A t \in Threads : Idle(t)) =>
    \A h \in Slots : LET o == table[h].object
                     IN  o # NoObject =>
                           table[h].refs = owned[h] + (IF h = Head(handles[o])
                                                       THEN derefs[o] ELSE 0)

\* The handle in an object's guest structure denotes the object as long as it
\* has a handle at all.
StructureFindsObject ==
  \A o \in Objects : handles[o] # <<>> => table[stash[o]].object = o

\* These hold for two kinds of guests.  One uses handles only, ...
PlainGuest ==
  Calls \subseteq {"create", "duplicate", "move", "purge"} /\ ~Named

\* ... the other does not duplicate what it references and searches for.
ReferringGuest ==
  Calls \subseteq {"create", "open", "reference"} /\ CarefulGuest

\* A handle the guest may use denotes its object, for both kinds of guests.  For the
\* second so does the handle in the object's structure, and an object is not deleted
\* while it has handles.
EveryHandleDenotes ==
  /\ PlainGuest \/ ReferringGuest => HandleDenotes
  /\ ReferringGuest => StructureFindsObject /\ DeletedWithoutHandles

\* What the table counts is what the guest may give back, for both kinds of guests.
NoUseLeaks ==
  PlainGuest \/ ReferringGuest => NothingLeaks

=============================================================================
