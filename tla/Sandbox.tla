------------------------------ MODULE Sandbox ------------------------------
(***************************************************************************)
(* The wasm2c sandbox of RLBox: creation and destruction, the table of     *)
(* callback slots, the pointers of functions that cross the boundary, the  *)
(* slot for returned structures, and calls nested in both directions by    *)
(* several threads.  rlbox_wasm2c_sandbox/include/rlbox_wasm2c_sandbox.hpp *)
(*                                                                         *)
(* A section under callback_mutex is one step.  The interceptor of a       *)
(* callback takes that mutex only to read the callback; the wrapper it     *)
(* then calls reads the key without it, in a step of its own.              *)
(*                                                                         *)
(* Outside src/ are the front end of RLBox (a program holds one handle per *)
(* registered function, drops it before the sandbox goes, and not while    *)
(* the function is being entered) and the function table of a wasm2c       *)
(* module (any free index may be given to a function).                     *)
(***************************************************************************)
EXTENDS Naturals, Sequences, FiniteSets

CONSTANTS Threads,
          Sandboxes,     \* objects of class rlbox_wasm2c_sandbox
          Keys,          \* functions of the program that may become callbacks
          Internals,     \* functions of the sandboxed library whose address is taken
          Indices,       \* of a module's function table, enough for all of these
          MaxCallbacks,  \* MAX_CALLBACKS
          Sizes,         \* sizes of structures that sandboxed functions return
          None,
          MaxDepth,      \* bound, per thread: calls it is in at once
          MaxCreations,      \* bound: creations of sandboxes
          MaxChanges     \* bound: registrations and unregistrations

ASSUME SandboxAssumption ==
    /\ MaxCallbacks \in Nat \ {0} /\ MaxDepth \in [Threads -> Nat] /\ MaxCreations \in Nat /\ MaxChanges \in Nat
    /\ Sizes \subseteq Nat
    /\ None \notin Threads \cup Sandboxes \cup Keys \cup Internals \cup Indices \cup Nat
    /\ Internals \cap Nat = {} /\ Keys \cap Internals = {}

Slots == 1..MaxCallbacks

VARIABLES
    sandbox,                  \* per object: whether it is not nullptr
    creations,                \* creations so far, failed ones included
    callback_unique_keys, callbacks, callback_slot_assignment,   \* per object and slot
    internal_callbacks,       \* per object and internal function: its index, or None
    slot_assignments,         \* per object and index: the function found there, or None
    table,                    \* per object and index: slot of the interceptor, internal function or None
    return_slot,              \* per object: unset, in the heap there is now, or of an earlier one
    return_slot_size,
    strayHeapUse,             \* the return slot of an earlier heap was freed or written
    thread_data,              \* per thread: sandbox and last_callback_invoked
    stack,                    \* per thread: its calls, the outermost first
    changes,                  \* registrations and unregistrations so far
    aborted                   \* a dynamic_check has failed

tables == <<callback_unique_keys, callbacks, callback_slot_assignment,
            internal_callbacks, slot_assignments, table>>
heaps == <<return_slot, return_slot_size, strayHeapUse>>
vars == <<sandbox, creations, tables, heaps, thread_data, stack, changes, aborted>>

(***************************************************************************)
(* Calls.  A frame is an invocation of a sandboxed function, with the      *)
(* sandbox that on_exit will restore, or a callback with the slot number   *)
(* N of its interceptor, the function and the key it has read.             *)
(***************************************************************************)
Invocation(s, old) == [is |-> "invoke", of |-> s, saved |-> old]
CallbackOf(n) == [is |-> "entered", n |-> n, func |-> None, key |-> None]

Frames ==
    [is : {"invoke"}, of : Sandboxes, saved : Sandboxes \cup {None}]
    \cup [is : {"entered", "looked_up", "running"}, n : Slots,
          func : Keys \cup {None}, key : Keys \cup {None}]

Top(t) == stack[t][Len(stack[t])]
\* A thread runs the program's own code outside all calls and in a callback's function.
InProgram(t) == stack[t] # <<>> => Top(t).is = "running"
InSandbox(t) == stack[t] # <<>> /\ Top(t).is = "invoke"
Replace(t, f) == stack' = [stack EXCEPT ![t][Len(stack[t])] = f]
Pop(t) == stack' = [stack EXCEPT ![t] = SubSeq(@, 1, Len(@) - 1)]

InUse(s) == \E t \in Threads : \E j \in 1..Len(stack[t]) :
    stack[t][j].is = "invoke" /\ stack[t][j].of = s

\* A thread is between the call of slot n's interceptor in s and the key.
Entering(s, n) == \E t \in Threads :
    /\ stack[t] # <<>> /\ Top(t).is \in {"entered", "looked_up"}
    /\ Top(t).n = n
    /\ stack[t][Len(stack[t]) - 1].of = s

Registered(s) == {callback_unique_keys[s][n] : n \in Slots} \ {None}
FreeSlots(s) == {n \in Slots : callbacks[s][n] = None}
FreeIndices(s) == {i \in Indices : table[s][i] = None}

TablesTypeOK ==
    /\ sandbox \in [Sandboxes -> BOOLEAN]
    /\ callback_unique_keys \in [Sandboxes -> [Slots -> Keys \cup {None}]]
    /\ callbacks \in [Sandboxes -> [Slots -> Keys \cup {None}]]
    /\ callback_slot_assignment \in [Sandboxes -> [Slots -> Indices \cup {None}]]
    /\ internal_callbacks \in [Sandboxes -> [Internals -> Indices \cup {None}]]
    /\ slot_assignments \in [Sandboxes -> [Indices -> Keys \cup Internals \cup {None}]]
    /\ table \in [Sandboxes -> [Indices -> Slots \cup Internals \cup {None}]]

HeapsTypeOK ==
    /\ return_slot \in [Sandboxes -> {"unset", "now", "earlier"}]
    /\ return_slot_size \in [Sandboxes -> Nat]
    /\ strayHeapUse \in BOOLEAN

CallsTypeOK ==
    /\ thread_data \in [Threads -> [sandbox : Sandboxes \cup {None},
                                    last_callback_invoked : Slots \cup {None}]]
    /\ stack \in [Threads -> Seq(Frames)]

CountsTypeOK == creations \in Nat /\ changes \in Nat /\ aborted \in BOOLEAN

TypeOK == TablesTypeOK /\ HeapsTypeOK /\ CallsTypeOK /\ CountsTypeOK

Init ==
    /\ sandbox = [s \in Sandboxes |-> FALSE]
    /\ creations = 0
    /\ callback_unique_keys = [s \in Sandboxes |-> [n \in Slots |-> None]]
    /\ callbacks = [s \in Sandboxes |-> [n \in Slots |-> None]]
    /\ callback_slot_assignment = [s \in Sandboxes |-> [n \in Slots |-> None]]
    /\ internal_callbacks = [s \in Sandboxes |-> [f \in Internals |-> None]]
    /\ slot_assignments = [s \in Sandboxes |-> [i \in Indices |-> None]]
    /\ table = [s \in Sandboxes |-> [i \in Indices |-> None]]
    /\ return_slot = [s \in Sandboxes |-> "unset"]
    /\ return_slot_size = [s \in Sandboxes |-> 0]
    /\ strayHeapUse = FALSE
    /\ thread_data = [t \in Threads |-> [sandbox |-> None, last_callback_invoked |-> None]]
    /\ stack = [t \in Threads |-> <<>>]
    /\ changes = 0
    /\ aborted = FALSE

(***************************************************************************)
(* Creation and destruction                                                *)
(***************************************************************************)

\* A new instance has a function table and a heap of its own; the members of
\* the object keep what an earlier life left in them.
Create(t, s) ==
    /\ InProgram(t) /\ ~sandbox[s] /\ creations < MaxCreations
    /\ creations' = creations + 1
    /\ sandbox' = [sandbox EXCEPT ![s] = TRUE]
    /\ table' = [table EXCEPT ![s] = [i \in Indices |-> None]]
    /\ UNCHANGED <<callback_unique_keys, callbacks, callback_slot_assignment, internal_callbacks,
                   slot_assignments, heaps, thread_data, stack, changes, aborted>>

\* The return slot is given back to whatever heap there is now.  Nothing resets
\* return_slot_size.
FreeReturnSlot(s) ==
    strayHeapUse' = (strayHeapUse \/ (return_slot_size[s] > 0 /\ return_slot[s] = "earlier"))

\* The heap goes with the instance.
Destroy(t, s) ==
    /\ InProgram(t) /\ sandbox[s]
    /\ ~InUse(s) /\ Registered(s) = {}
    /\ FreeReturnSlot(s)
    /\ sandbox' = [sandbox EXCEPT ![s] = FALSE]
    /\ return_slot' = [return_slot EXCEPT ![s] = IF @ = "now" THEN "earlier" ELSE @]
    /\ UNCHANGED <<creations, tables, return_slot_size, thread_data, stack, changes, aborted>>

\* A creation that may fail and does (infallible = false): the object is
\* destroyed, with what an earlier life left in it, and false is returned.
CreateFails(t, s) ==
    /\ InProgram(t) /\ ~sandbox[s] /\ creations < MaxCreations
    /\ creations' = creations + 1
    /\ FreeReturnSlot(s)
    /\ UNCHANGED <<sandbox, tables, return_slot, return_slot_size, thread_data, stack, changes, aborted>>

(***************************************************************************)
(* Function pointers                                                       *)
(***************************************************************************)

Register(t, s, k) ==
    /\ InProgram(t) /\ sandbox[s] /\ changes < MaxChanges
    /\ k \notin Registered(s)
    /\ \E n \in FreeSlots(s), i \in FreeIndices(s) :
        /\ \A m \in FreeSlots(s) : n <= m
        /\ table' = [table EXCEPT ![s][i] = n]
        /\ callback_unique_keys' = [callback_unique_keys EXCEPT ![s][n] = k]
        /\ callbacks' = [callbacks EXCEPT ![s][n] = k]
        /\ callback_slot_assignment' = [callback_slot_assignment EXCEPT ![s][n] = i]
        /\ slot_assignments' = [slot_assignments EXCEPT ![s][i] = k]
    /\ changes' = changes + 1
    /\ UNCHANGED <<sandbox, creations, internal_callbacks, heaps, thread_data, stack, aborted>>

\* No slot is left: dynamic_check ends the program.
RegisterFull(t, s, k) ==
    /\ InProgram(t) /\ sandbox[s]
    /\ k \notin Registered(s)
    /\ FreeSlots(s) = {}
    /\ aborted' = TRUE
    /\ UNCHANGED <<sandbox, creations, tables, heaps, thread_data, stack, changes>>

\* Mutant: the callback stays in its slot.
UnregisterKeepsCallback(t, s, k) ==
    /\ InProgram(t) /\ sandbox[s] /\ changes < MaxChanges
    /\ \E n \in Slots :
        /\ callback_unique_keys[s][n] = k
        /\ \A m \in Slots : callback_unique_keys[s][m] = k => n <= m
        /\ ~Entering(s, n)
        /\ table' = [table EXCEPT ![s][callback_slot_assignment[s][n]] = None]
        /\ callback_unique_keys' = [callback_unique_keys EXCEPT ![s][n] = None]
        /\ callback_slot_assignment' = [callback_slot_assignment EXCEPT ![s][n] = None]
    /\ changes' = changes + 1
    /\ UNCHANGED <<sandbox, creations, callbacks, internal_callbacks, slot_assignments, heaps,
                   thread_data, stack, aborted>>

\* Mutant: the index stays in the function table of the module.
UnregisterKeepsIndex(t, s, k) ==
    /\ InProgram(t) /\ sandbox[s] /\ changes < MaxChanges
    /\ \E n \in Slots :
        /\ callback_unique_keys[s][n] = k
        /\ ~Entering(s, n)
        /\ callback_unique_keys' = [callback_unique_keys EXCEPT ![s][n] = None]
        /\ callbacks' = [callbacks EXCEPT ![s][n] = None]
        /\ callback_slot_assignment' = [callback_slot_assignment EXCEPT ![s][n] = None]
    /\ changes' = changes + 1
    /\ UNCHANGED <<sandbox, creations, internal_callbacks, slot_assignments, table, heaps,
                   thread_data, stack, aborted>>

Unregister(t, s, k) ==
    /\ InProgram(t) /\ sandbox[s] /\ changes < MaxChanges
    /\ \E n \in Slots :
        /\ callback_unique_keys[s][n] = k
        /\ \A m \in Slots : callback_unique_keys[s][m] = k => n <= m
        /\ ~Entering(s, n)
        /\ table' = [table EXCEPT ![s][callback_slot_assignment[s][n]] = None]
        /\ callback_unique_keys' = [callback_unique_keys EXCEPT ![s][n] = None]
        /\ callbacks' = [callbacks EXCEPT ![s][n] = None]
        /\ callback_slot_assignment' = [callback_slot_assignment EXCEPT ![s][n] = None]
    /\ changes' = changes + 1
    /\ UNCHANGED <<sandbox, creations, internal_callbacks, slot_assignments, heaps, thread_data, stack, aborted>>

\* impl_get_sandboxed_pointer of a function of the library: its index is found
\* among the internal callbacks, or it is given one.
GetSandboxedPointer(t, s, f) ==
    /\ InProgram(t) /\ sandbox[s]
    /\ internal_callbacks[s][f] = None
    /\ \E i \in FreeIndices(s) :
        /\ table' = [table EXCEPT ![s][i] = f]
        /\ internal_callbacks' = [internal_callbacks EXCEPT ![s][f] = i]
        /\ slot_assignments' = [slot_assignments EXCEPT ![s][i] = f]
    /\ UNCHANGED <<sandbox, creations, callback_unique_keys, callbacks, callback_slot_assignment,
                   heaps, thread_data, stack, changes, aborted>>

(***************************************************************************)
(* Invocations and callbacks                                               *)
(***************************************************************************)

InvokeWithFuncPtr(t, s) ==
    /\ InProgram(t) /\ sandbox[s] /\ Len(stack[t]) < MaxDepth[t]
    /\ stack' = [stack EXCEPT ![t] = Append(@, Invocation(s, thread_data[t].sandbox))]
    /\ thread_data' = [thread_data EXCEPT ![t].sandbox = s]
    /\ UNCHANGED <<sandbox, creations, tables, heaps, changes, aborted>>

\* A function that returns a structure of this size: the slot grows first if
\* it must; the structure is written into the slot.
InvokeReturningClass(t, s, size) ==
    /\ InProgram(t) /\ sandbox[s] /\ Len(stack[t]) < MaxDepth[t]
    /\ IF size > return_slot_size[s]
       THEN /\ FreeReturnSlot(s)
            /\ return_slot' = [return_slot EXCEPT ![s] = "now"]
            /\ return_slot_size' = [return_slot_size EXCEPT ![s] = size]
       ELSE /\ strayHeapUse' = (strayHeapUse \/ return_slot[s] = "earlier")
            /\ UNCHANGED <<return_slot, return_slot_size>>
    /\ stack' = [stack EXCEPT ![t] = Append(@, Invocation(s, thread_data[t].sandbox))]
    /\ thread_data' = [thread_data EXCEPT ![t].sandbox = s]
    /\ UNCHANGED <<sandbox, creations, tables, changes, aborted>>

\* Mutant: nothing is restored on the way out.
InvocationLeavesItself(t) ==
    /\ InSandbox(t)
    /\ Pop(t)
    /\ UNCHANGED <<sandbox, creations, tables, heaps, thread_data, changes, aborted>>

\* on_exit, on every way out of the invocation.
InvocationReturns(t) ==
    /\ InSandbox(t)
    /\ thread_data' = [thread_data EXCEPT ![t].sandbox = Top(t).saved]
    /\ Pop(t)
    /\ UNCHANGED <<sandbox, creations, tables, heaps, changes, aborted>>

\* The library calls index i of the function table of the sandbox it runs in,
\* and reaches the interceptor of a slot.
CallbackInterceptor(t, i) ==
    /\ InSandbox(t) /\ Len(stack[t]) < MaxDepth[t]
    /\ table[Top(t).of][i] \in Slots
    /\ thread_data' = [thread_data EXCEPT ![t].last_callback_invoked = table[Top(t).of][i]]
    /\ stack' = [stack EXCEPT ![t] = Append(@, CallbackOf(table[Top(t).of][i]))]
    /\ UNCHANGED <<sandbox, creations, tables, heaps, changes, aborted>>

LookUpCallback(t) ==
    /\ stack[t] # <<>> /\ Top(t).is = "entered"
    /\ Replace(t, [Top(t) EXCEPT !.is = "looked_up",
                                 !.func = callbacks[thread_data[t].sandbox][Top(t).n]])
    /\ UNCHANGED <<sandbox, creations, tables, heaps, thread_data, changes, aborted>>

\* impl_get_executed_callback_sandbox_and_key, without the mutex.
GetExecutedCallbackSandboxAndKey(t) ==
    /\ stack[t] # <<>> /\ Top(t).is = "looked_up"
    /\ LET td == thread_data[t]
       IN  Replace(t, [Top(t) EXCEPT !.is = "running",
                           !.key = callback_unique_keys[td.sandbox][td.last_callback_invoked]])
    /\ UNCHANGED <<sandbox, creations, tables, heaps, thread_data, changes, aborted>>

CallbackReturns(t) ==
    /\ stack[t] # <<>> /\ Top(t).is = "running"
    /\ Pop(t)
    /\ UNCHANGED <<sandbox, creations, tables, heaps, thread_data, changes, aborted>>

Step ==
    \E t \in Threads :
        \/ \E s \in Sandboxes :
            \/ Create(t, s) \/ Destroy(t, s) \/ CreateFails(t, s)
            \/ InvokeWithFuncPtr(t, s)
            \/ \E k \in Keys : Register(t, s, k) \/ RegisterFull(t, s, k) \/ Unregister(t, s, k)
            \/ \E f \in Internals : GetSandboxedPointer(t, s, f)
            \/ \E size \in Sizes : InvokeReturningClass(t, s, size)
        \/ \E i \in Indices : CallbackInterceptor(t, i)
        \/ InvocationReturns(t)
        \/ LookUpCallback(t)
        \/ GetExecutedCallbackSandboxAndKey(t)
        \/ CallbackReturns(t)

Next == ~aborted /\ Step

Spec == Init /\ [][Next]_vars

(***************************************************************************)
(* Properties                                                              *)
(***************************************************************************)

\* The tables of callbacks and the module's function table agree: a slot has a
\* key, a callback and an index, or none of them; its index leads back to its
\* interceptor and to the callback, and no other index reaches that slot.
SlotAgrees(s, n) ==
    LET i == callback_slot_assignment[s][n]
    IN  /\ callbacks[s][n] = callback_unique_keys[s][n]
        /\ (i = None) <=> (callbacks[s][n] = None)
        /\ i # None => table[s][i] = n /\ slot_assignments[s][i] = callbacks[s][n]

IndexAgrees(s, i) == table[s][i] \in Slots => callback_slot_assignment[s][table[s][i]] = i

SlotsAgree ==
    \A s \in Sandboxes : sandbox[s] =>
        (\A n \in Slots : SlotAgrees(s, n)) /\ (\A i \in Indices : IndexAgrees(s, i))

\* A slot belongs to one key, and an index of the function table to one slot.
SlotsExclusive ==
    \A s \in Sandboxes : sandbox[s] => \A m, n \in Slots :
        m # n /\ callbacks[s][m] # None =>
            /\ callback_unique_keys[s][m] # callback_unique_keys[s][n]
            /\ callback_slot_assignment[s][m] # callback_slot_assignment[s][n]

\* Whatever is registered, unregistered and registered again, in however many
\* lives of an object, the tables describe the same callbacks.
TablesExact == TypeOK /\ SlotsAgree /\ SlotsExclusive

\* Slots are given back: the program ends for want of a slot only when
\* MAX_CALLBACKS functions are registered at once.
AbortsOnlyWhenFull ==
    aborted => \E s \in Sandboxes : Cardinality(Registered(s)) = MaxCallbacks

\* What CallbackTable sees.  The key of a callback being entered is the one it
\* is going to read; a callback that runs with another key than the one its
\* function was made for is no callback of CallbackTable.
CallWith(sb, keys, f) ==
    CASE f.is = "invoke" -> [is |-> "invoke", of |-> f.of]
      [] f.is = "running" -> [is |-> IF f.func = f.key THEN "running" ELSE "broken", of |-> f.key]
      [] OTHER -> [is |-> "entered", of |-> keys[sb][f.n]]

Seen(sb, keys, c) == [j \in 1..Len(c) |-> CallWith(sb, keys, c[j])]

Bound == [s \in Sandboxes |-> [i \in Indices |->
    IF table[s][i] \in Slots THEN callback_unique_keys[s][table[s][i]] ELSE None]]

CallsSeen ==
    [t \in Threads |-> Seen(thread_data[t].sandbox, callback_unique_keys, stack[t])]

Current == [t \in Threads |-> thread_data[t].sandbox]

Promised == INSTANCE CallbackTable WITH
    bound <- Bound, calls <- CallsSeen, current <- Current

\* What a program relies on when it hands callbacks to sandboxes: see
\* CallbackTable.
ImplementsCallbackTable == Promised!Spec

\* The return slot is memory of the heap there is now.
ReturnSlotInHeap == ~strayHeapUse

\* The index handed out for a function of the library leads to that function.
InternalsTrue ==
    \A s \in Sandboxes, f \in Internals :
        sandbox[s] /\ internal_callbacks[s][f] # None =>
            table[s][internal_callbacks[s][f]] = f
=============================================================================
