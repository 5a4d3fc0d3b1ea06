--------------------------- MODULE SandboxProofs ---------------------------
(***************************************************************************)
(* Theorems about Sandbox, for any number of threads, sandboxes, callbacks *)
(* and slots, any depth of nested calls and any number of lives of an      *)
(* object, and that it implements CallbackTable.                           *)
(***************************************************************************)
EXTENDS Sandbox, FiniteSetTheorems, FunctionTheorems, SequenceTheorems,
        TLAPS

USE SandboxAssumption

-----------------------------------------------------------------------------
(* The inductive invariant                                                 *)

(* An object that is not created has no callbacks: a sandbox only goes     *)
(* when all its handles have gone.                                         *)
DeadTables ==
    \A s \in Sandboxes : ~sandbox[s] => \A n \in Slots :
        /\ callbacks[s][n] = None
        /\ callback_unique_keys[s][n] = None
        /\ callback_slot_assignment[s][n] = None

TablesInv == TablesTypeOK /\ SlotsAgree /\ SlotsExclusive /\ DeadTables

(* The sandbox a thread is in, or was called from, after its first n calls.*)
SandboxAt(c, n) ==
    IF n = 0 THEN None ELSE IF c[n].is = "invoke" THEN c[n].of ELSE c[n - 1].of

(* Calls into sandboxes and callbacks alternate, the first is into one;    *)
(* only the innermost can be a callback that does not run yet; an          *)
(* invocation has saved the sandbox around it.                             *)
Nested(c) ==
    \A j \in 1..Len(c) :
        /\ c[j].is = "invoke" <=> j = 1 \/ c[j - 1].is # "invoke"
        /\ c[j].is \in {"entered", "looked_up"} => j = Len(c)
        /\ c[j].is = "invoke" => c[j].saved = SandboxAt(c, j - 1)
        /\ c[j].is = "running" => c[j].func = c[j].key

CallsInv ==
    /\ CallsTypeOK
    /\ \A t \in Threads :
        /\ Nested(stack[t])
        /\ thread_data[t].sandbox = SandboxAt(stack[t], Len(stack[t]))

(* Nobody runs in a sandbox that is gone.                                  *)
AliveInv == \A s \in Sandboxes : InUse(s) => sandbox[s]

(* The slot of a callback that is being entered keeps its key.             *)
EnteringInv ==
    \A t \in Threads :
        stack[t] # <<>> /\ Top(t).is \in {"entered", "looked_up"} =>
            /\ thread_data[t].last_callback_invoked = Top(t).n
            /\ callback_unique_keys[thread_data[t].sandbox][Top(t).n] # None
            /\ Top(t).is = "looked_up" =>
                  Top(t).func = callback_unique_keys[thread_data[t].sandbox][Top(t).n]

IInv ==
    /\ TablesInv /\ CallsInv /\ AliveInv /\ EnteringInv
    /\ HeapsTypeOK /\ CountsTypeOK /\ AbortsOnlyWhenFull

-----------------------------------------------------------------------------
(* Sequences of calls                                                      *)

LEMMA NestedPush ==
    ASSUME NEW c \in Seq(Frames), Nested(c), NEW f \in Frames,
           f.is = "invoke" <=> c = <<>> \/ c[Len(c)].is # "invoke",
           c # <<>> => c[Len(c)].is \in {"invoke", "running"},
           f.is = "invoke" => f.saved = SandboxAt(c, Len(c)),
           f.is = "running" => f.func = f.key
    PROVE  /\ Nested(Append(c, f))
           /\ \A n \in 0..Len(c) : SandboxAt(Append(c, f), n) = SandboxAt(c, n)
<1> DEFINE d == Append(c, f)
<1>1. Len(d) = Len(c) + 1 /\ d[Len(c) + 1] = f /\ \A j \in 1..Len(c) : d[j] = c[j]
    OBVIOUS
<1>2. ASSUME NEW n \in 0..Len(c), n > 0 => c[n].is = "invoke" \/ n > 1
      PROVE  SandboxAt(d, n) = SandboxAt(c, n)
    BY <1>1, <1>2 DEF SandboxAt
<1>3. \A j \in 1..Len(c) : c[j].is = "invoke" \/ j > 1
    BY DEF Nested
<1>4. \A n \in 0..Len(c) : SandboxAt(d, n) = SandboxAt(c, n)
    BY <1>2, <1>3
<1> HIDE DEF d
<1>5. Len(c) \in Nat /\ (c = <<>> <=> Len(c) = 0)
    OBVIOUS
<1> SUFFICES ASSUME NEW j \in 1..Len(d)
             PROVE  /\ d[j].is = "invoke" <=> j = 1 \/ d[j - 1].is # "invoke"
                    /\ d[j].is \in {"entered", "looked_up"} => j = Len(d)
                    /\ d[j].is = "invoke" => d[j].saved = SandboxAt(d, j - 1)
                    /\ d[j].is = "running" => d[j].func = d[j].key
    BY <1>4 DEF Nested, d
<1>6. CASE j \in 1..Len(c)
    <2>1. d[j] = c[j] /\ (j > 1 => d[j - 1] = c[j - 1])
        BY <1>1, <1>6
    <2>2. SandboxAt(d, j - 1) = SandboxAt(c, j - 1)
        BY <1>4, <1>6
    <2>3. d[j].is \in {"entered", "looked_up"} => j = Len(d)
        BY <2>1, <1>6, <1>5 DEF Nested
    <2> QED
        BY <2>1, <2>2, <2>3, <1>6 DEF Nested
<1>7. CASE j = Len(c) + 1
    <2>1. d[j] = f /\ (Len(c) > 0 => d[j - 1] = c[Len(c)])
        BY <1>1, <1>5, <1>7
    <2>2. SandboxAt(d, j - 1) = SandboxAt(c, Len(c))
        BY <1>4, <1>5, <1>7
    <2> QED
        BY <2>1, <2>2, <1>1, <1>5, <1>7
<1> QED
    BY <1>1, <1>5, <1>6, <1>7

LEMMA PopFacts ==
    ASSUME NEW S, NEW c \in Seq(S), c # <<>>
    PROVE  /\ SubSeq(c, 1, Len(c) - 1) \in Seq(S)
           /\ Len(SubSeq(c, 1, Len(c) - 1)) = Len(c) - 1
           /\ \A j \in 1..(Len(c) - 1) : SubSeq(c, 1, Len(c) - 1)[j] = c[j]
<1> DEFINE n == Len(c) - 1
<1>1. Len(c) \in Nat \ {0} /\ n \in Nat /\ \A i \in 1..n : c[i] \in S
    OBVIOUS
<1> HIDE DEF n
<1>2. /\ SubSeq(c, 1, n) \in Seq(S)
      /\ Len(SubSeq(c, 1, n)) = (IF 1 <= n THEN n - 1 + 1 ELSE 0)
    BY <1>1, SubSeqProperties
<1>3. \A i \in 1..(n - 1 + 1) : SubSeq(c, 1, n)[i] = c[1 + i - 1]
    BY <1>1, SubSeqProperties
<1>4. Len(SubSeq(c, 1, n)) = n /\ \A i \in 1..n : SubSeq(c, 1, n)[i] = c[i]
    BY <1>1, <1>2, <1>3
<1> QED
    BY <1>2, <1>4 DEF n

LEMMA NestedPop ==
    ASSUME NEW c \in Seq(Frames), Nested(c), c # <<>>
    PROVE  /\ Nested(SubSeq(c, 1, Len(c) - 1))
           /\ \A n \in 0..(Len(c) - 1) :
                 SandboxAt(SubSeq(c, 1, Len(c) - 1), n) = SandboxAt(c, n)
<1> DEFINE d == SubSeq(c, 1, Len(c) - 1)
<1>1. Len(c) \in Nat \ {0} /\ Len(d) = Len(c) - 1 /\ \A j \in 1..Len(d) : d[j] = c[j]
    BY PopFacts
<1>2. \A j \in 1..Len(c) : c[j].is = "invoke" \/ j > 1
    BY DEF Nested
<1>3. \A n \in 0..Len(d) : SandboxAt(d, n) = SandboxAt(c, n)
  <2> HIDE DEF d
  <2> QED BY <1>1, <1>2 DEF SandboxAt
<1> HIDE DEF d
<1> SUFFICES ASSUME NEW j \in 1..Len(d)
             PROVE  /\ d[j].is = "invoke" <=> j = 1 \/ d[j - 1].is # "invoke"
                    /\ d[j].is \in {"entered", "looked_up"} => j = Len(d)
                    /\ d[j].is = "invoke" => d[j].saved = SandboxAt(d, j - 1)
                    /\ d[j].is = "running" => d[j].func = d[j].key
    BY <1>1, <1>3 DEF Nested, d
<1>4. d[j] = c[j] /\ (j > 1 => d[j - 1] = c[j - 1]) /\ SandboxAt(d, j - 1) = SandboxAt(c, j - 1)
    BY <1>1, <1>3
<1> QED
    BY <1>1, <1>4 DEF Nested

(* The innermost call, a callback, gets on.                                *)
LEMMA NestedStep ==
    ASSUME NEW c \in Seq(Frames), Nested(c), c # <<>>, NEW f \in Frames,
           c[Len(c)].is # "invoke", f.is # "invoke",
           f.is = "running" => f.func = f.key
    PROVE  /\ Nested([c EXCEPT ![Len(c)] = f])
           /\ \A n \in 0..Len(c) : SandboxAt([c EXCEPT ![Len(c)] = f], n) = SandboxAt(c, n)
<1> DEFINE d == [c EXCEPT ![Len(c)] = f]
<1>0. Len(c) \in Nat \ {0} /\ DOMAIN c = 1..Len(c)
    OBVIOUS
<1>1. /\ Len(c) \in Nat \ {0} /\ Len(d) = Len(c) /\ d[Len(c)] = f
      /\ \A j \in 1..(Len(c) - 1) : d[j] = c[j]
    BY <1>0
<1>2. \A j \in 1..Len(c) : c[j].is = "invoke" \/ j > 1
    BY DEF Nested
<1>3. \A n \in 0..Len(c) : SandboxAt(d, n) = SandboxAt(c, n)
  <2> HIDE DEF d
  <2> QED BY <1>1, <1>2 DEF SandboxAt
<1> HIDE DEF d
<1> SUFFICES ASSUME NEW j \in 1..Len(d)
             PROVE  /\ d[j].is = "invoke" <=> j = 1 \/ d[j - 1].is # "invoke"
                    /\ d[j].is \in {"entered", "looked_up"} => j = Len(d)
                    /\ d[j].is = "invoke" => d[j].saved = SandboxAt(d, j - 1)
                    /\ d[j].is = "running" => d[j].func = d[j].key
    BY <1>3 DEF Nested, d
<1>4. CASE j < Len(c)
    <2>1. d[j] = c[j] /\ (j > 1 => d[j - 1] = c[j - 1]) /\ SandboxAt(d, j - 1) = SandboxAt(c, j - 1)
        BY <1>1, <1>3, <1>4
    <2> QED
        BY <2>1, <1>1, <1>4 DEF Nested
<1>5. CASE j = Len(c)
    <2>1. d[j] = f /\ (j > 1 => d[j - 1] = c[j - 1])
        BY <1>1, <1>5
    <2>2. ~(j = 1 \/ c[j - 1].is # "invoke")
        BY <1>1, <1>5 DEF Nested
    <2> QED
        BY <2>1, <2>2, <1>1, <1>5
<1> QED
    BY <1>1, <1>4, <1>5

-----------------------------------------------------------------------------
(* The tables                                                              *)

LEMMA TablesFrame ==
    ASSUME TablesInv, UNCHANGED <<sandbox, tables>>
    PROVE  TablesInv'
<1>1. TablesTypeOK'
    BY DEF TablesInv, TablesTypeOK, tables
<1>2. SlotsAgree' /\ SlotsExclusive' /\ DeadTables'
    BY DEF TablesInv, SlotsAgree, SlotAgrees, IndexAgrees, SlotsExclusive, DeadTables, tables
<1> QED
    BY <1>1, <1>2 DEF TablesInv

LEMMA CreateTables ==
    ASSUME TablesInv, NEW t \in Threads, NEW s \in Sandboxes, Create(t, s)
    PROVE  TablesInv'
<1>1. TablesTypeOK'
    BY DEF Create, TablesInv, TablesTypeOK
<1>2. SlotsAgree'
  <2> SUFFICES ASSUME NEW r \in Sandboxes, sandbox'[r]
               PROVE  /\ \A n \in Slots : SlotAgrees(r, n)'
                      /\ \A i \in Indices : IndexAgrees(r, i)'
    BY DEF SlotsAgree
  <2>1. CASE r = s
    BY <2>1 DEF Create, TablesInv, TablesTypeOK, DeadTables, Slots, SlotAgrees, IndexAgrees
  <2>2. CASE r # s
    <3>1. sandbox[r] /\ table'[r] = table[r]
      BY <2>2 DEF Create, TablesInv, TablesTypeOK
    <3> QED
      BY <3>1 DEF Create, TablesInv, SlotsAgree, SlotAgrees, IndexAgrees
  <2> QED
    BY <2>1, <2>2
<1>3. SlotsExclusive'
    BY DEF Create, TablesInv, TablesTypeOK, SlotsExclusive, DeadTables
<1>4. DeadTables'
    BY DEF Create, TablesInv, TablesTypeOK, DeadTables
<1> QED
    BY <1>1, <1>2, <1>3, <1>4 DEF TablesInv

LEMMA DestroyTables ==
    ASSUME TablesInv, NEW t \in Threads, NEW s \in Sandboxes, Destroy(t, s)
    PROVE  TablesInv'
<1>1. TablesTypeOK'
    BY DEF Destroy, tables, TablesInv, TablesTypeOK
<1>2. SlotsAgree'
    BY DEF Destroy, tables, TablesInv, TablesTypeOK, SlotsAgree, SlotAgrees, IndexAgrees
<1>3. SlotsExclusive'
    BY DEF Destroy, tables, TablesInv, TablesTypeOK, SlotsExclusive
<1>4. DeadTables'
  <2>1. \A n \in Slots : callback_unique_keys[s][n] = None
    BY DEF Destroy, Registered, TablesInv, TablesTypeOK
  <2> QED
    BY <2>1 DEF Destroy, tables, TablesInv, TablesTypeOK, SlotsAgree, SlotAgrees, IndexAgrees, DeadTables
<1> QED
    BY <1>1, <1>2, <1>3, <1>4 DEF TablesInv

LEMMA RegisterTables ==
    ASSUME TablesInv, NEW t \in Threads, NEW s \in Sandboxes, NEW k \in Keys, Register(t, s, k)
    PROVE  TablesInv'
<1> PICK n \in FreeSlots(s), i \in FreeIndices(s) :
        /\ table' = [table EXCEPT ![s][i] = n]
        /\ callback_unique_keys' = [callback_unique_keys EXCEPT ![s][n] = k]
        /\ callbacks' = [callbacks EXCEPT ![s][n] = k]
        /\ callback_slot_assignment' = [callback_slot_assignment EXCEPT ![s][n] = i]
        /\ slot_assignments' = [slot_assignments EXCEPT ![s][i] = k]
    BY DEF Register
<1>0. /\ n \in Slots /\ callbacks[s][n] = None /\ i \in Indices /\ table[s][i] = None
      /\ sandbox[s] /\ sandbox' = sandbox /\ internal_callbacks' = internal_callbacks
      /\ n # None /\ k # None /\ i # None /\ \A m \in Slots : m # None
    BY DEF FreeSlots, FreeIndices, Register, Slots
<1>1. TablesTypeOK'
    BY <1>0 DEF TablesInv, TablesTypeOK
<1>2. /\ callback_slot_assignment[s][n] = None
      /\ \A j \in Indices : table[s][j] # n
      /\ \A m \in Slots : callback_slot_assignment[s][m] # i
    BY <1>0 DEF TablesInv, TablesTypeOK, SlotsAgree, SlotAgrees, IndexAgrees
<1>3. SlotsAgree'
    BY <1>0, <1>2 DEF TablesInv, TablesTypeOK, SlotsAgree, SlotAgrees, IndexAgrees
<1>4. SlotsExclusive'
  <2>1. \A m \in Slots : callback_unique_keys[s][m] # k
    BY <1>0 DEF Register, Registered
  <2> QED
    BY <1>0, <1>2, <2>1 DEF TablesInv, TablesTypeOK, SlotsExclusive, SlotsAgree, SlotAgrees, IndexAgrees
<1>5. DeadTables'
    BY <1>0 DEF TablesInv, TablesTypeOK, DeadTables
<1> QED
    BY <1>1, <1>3, <1>4, <1>5 DEF TablesInv

LEMMA UnregisterTables ==
    ASSUME TablesInv, NEW t \in Threads, NEW s \in Sandboxes, NEW k \in Keys, Unregister(t, s, k)
    PROVE  TablesInv'
<1> PICK n \in Slots :
        /\ callback_unique_keys[s][n] = k
        /\ table' = [table EXCEPT ![s][callback_slot_assignment[s][n]] = None]
        /\ callback_unique_keys' = [callback_unique_keys EXCEPT ![s][n] = None]
        /\ callbacks' = [callbacks EXCEPT ![s][n] = None]
        /\ callback_slot_assignment' = [callback_slot_assignment EXCEPT ![s][n] = None]
    BY DEF Unregister
<1> DEFINE i == callback_slot_assignment[s][n]
<1>0. /\ sandbox[s] /\ sandbox' = sandbox /\ internal_callbacks' = internal_callbacks
      /\ slot_assignments' = slot_assignments /\ k # None
    BY DEF Unregister
<1>1. i \in Indices /\ table[s][i] = n /\ callbacks[s][n] = k
    BY <1>0 DEF TablesInv, TablesTypeOK, SlotsAgree, SlotAgrees, IndexAgrees
<1>2. \A m \in Slots : m # n => callback_slot_assignment[s][m] # i
    BY <1>0, <1>1 DEF TablesInv, SlotsExclusive
<1>3. \A j \in Indices : j # i => table[s][j] # n
    BY <1>0, <1>1 DEF TablesInv, SlotsAgree, SlotAgrees, IndexAgrees
<1> HIDE DEF i
<1>4. table' = [table EXCEPT ![s][i] = None]
    BY DEF i
<1>5. TablesTypeOK'
  <2>1. table' \in [Sandboxes -> [Indices -> Slots \cup Internals \cup {None}]]
    <3>1. table \in [Sandboxes -> [Indices -> Slots \cup Internals \cup {None}]]
      BY DEF TablesInv, TablesTypeOK
    <3>2. [table[s] EXCEPT ![i] = None] \in [Indices -> Slots \cup Internals \cup {None}]
      BY <3>1
    <3>3. table' = [table EXCEPT ![s] = [table[s] EXCEPT ![i] = None]]
      BY <1>4, <3>1
    <3> QED
      BY <3>1, <3>2, <3>3
  <2>2. callback_slot_assignment' \in [Sandboxes -> [Slots -> Indices \cup {None}]]
    BY DEF TablesInv, TablesTypeOK
  <2>3. callbacks' \in [Sandboxes -> [Slots -> Keys \cup {None}]]
    BY DEF TablesInv, TablesTypeOK
  <2>4. callback_unique_keys' \in [Sandboxes -> [Slots -> Keys \cup {None}]]
    BY DEF TablesInv, TablesTypeOK
  <2> QED
    BY <1>0, <2>1, <2>2, <2>3, <2>4 DEF TablesInv, TablesTypeOK
<1>6. SlotsAgree'
  <2> SUFFICES ASSUME NEW r \in Sandboxes, sandbox'[r]
               PROVE  /\ \A m \in Slots : SlotAgrees(r, m)'
                      /\ \A j \in Indices : IndexAgrees(r, j)'
    BY DEF SlotsAgree
  <2>1. CASE r = s
    <3>1. ASSUME NEW m \in Slots PROVE SlotAgrees(s, m)'
      <4>1. CASE m = n
        BY <4>1 DEF TablesInv, TablesTypeOK, SlotAgrees
      <4>2. CASE m # n
        BY <4>2, <1>0, <1>1, <1>2, <1>4 DEF TablesInv, TablesTypeOK, SlotsAgree, SlotAgrees
      <4> QED
        BY <4>1, <4>2
    <3>2. ASSUME NEW j \in Indices PROVE IndexAgrees(s, j)'
      <4>1. CASE j = i
        BY <4>1, <1>1, <1>4 DEF TablesInv, TablesTypeOK, IndexAgrees, Slots
      <4>2. CASE j # i
        BY <4>2, <1>0, <1>3, <1>4 DEF TablesInv, TablesTypeOK, SlotsAgree, IndexAgrees
      <4> QED
        BY <4>1, <4>2
    <3> QED
      BY <2>1, <3>1, <3>2
  <2>2. CASE r # s
    BY <2>2, <1>0, <1>4 DEF TablesInv, TablesTypeOK, SlotsAgree, SlotAgrees, IndexAgrees
  <2> QED
    BY <2>1, <2>2
<1>7. SlotsExclusive'
    BY <1>0, <1>1, <1>2 DEF TablesInv, TablesTypeOK, SlotsExclusive, SlotsAgree, SlotAgrees, IndexAgrees
<1>8. DeadTables'
    BY <1>0 DEF TablesInv, TablesTypeOK, DeadTables
<1> QED
    BY <1>5, <1>6, <1>7, <1>8 DEF TablesInv

LEMMA PointerTables ==
    ASSUME TablesInv, NEW t \in Threads, NEW s \in Sandboxes, NEW f \in Internals,
           GetSandboxedPointer(t, s, f)
    PROVE  TablesInv'
<1> PICK i \in FreeIndices(s) :
        /\ table' = [table EXCEPT ![s][i] = f]
        /\ internal_callbacks' = [internal_callbacks EXCEPT ![s][f] = i]
        /\ slot_assignments' = [slot_assignments EXCEPT ![s][i] = f]
    BY DEF GetSandboxedPointer
<1>0. /\ i \in Indices /\ table[s][i] = None /\ f \notin Slots
      /\ UNCHANGED <<sandbox, callback_unique_keys, callbacks, callback_slot_assignment>>
    BY DEF FreeIndices, GetSandboxedPointer, Slots
<1>1. TablesTypeOK'
    BY <1>0 DEF TablesInv, TablesTypeOK
<1>2. \A n \in Slots : sandbox[s] => callback_slot_assignment[s][n] # i
    BY <1>0 DEF TablesInv, SlotsAgree, SlotAgrees, IndexAgrees, Slots
<1>3. SlotsAgree'
    BY <1>0, <1>2 DEF TablesInv, TablesTypeOK, SlotsAgree, SlotAgrees, IndexAgrees
<1>4. SlotsExclusive' /\ DeadTables'
    BY <1>0 DEF TablesInv, SlotsExclusive, DeadTables
<1> QED
    BY <1>1, <1>3, <1>4 DEF TablesInv

-----------------------------------------------------------------------------
(* The calls of the threads                                                *)

LEMMA CallsFrame ==
    ASSUME CallsInv, UNCHANGED <<stack, thread_data>>
    PROVE  CallsInv'
BY DEF CallsInv, CallsTypeOK

(* What changes the calls of one thread alone.                             *)
LEMMA CallsOfOne ==
    ASSUME CallsInv, NEW t \in Threads, NEW c \in Seq(Frames),
           NEW td \in [sandbox : Sandboxes \cup {None}, last_callback_invoked : Slots \cup {None}],
           stack' = [stack EXCEPT ![t] = c], thread_data' = [thread_data EXCEPT ![t] = td],
           Nested(c), td.sandbox = SandboxAt(c, Len(c))
    PROVE  CallsInv'
<1>1. CallsTypeOK'
    BY DEF CallsInv, CallsTypeOK
<1>2. ASSUME NEW u \in Threads
      PROVE  Nested(stack'[u]) /\ thread_data'[u].sandbox = SandboxAt(stack'[u], Len(stack'[u]))
  <2>1. CASE u = t
    BY <2>1 DEF CallsInv, CallsTypeOK
  <2>2. CASE u # t
    BY <2>2 DEF CallsInv, CallsTypeOK
  <2> QED
    BY <2>1, <2>2
<1> QED
    BY <1>1, <1>2 DEF CallsInv

LEMMA CallFacts ==
    ASSUME CallsInv, NEW t \in Threads
    PROVE  /\ stack[t] \in Seq(Frames) /\ Nested(stack[t])
           /\ thread_data[t] \in [sandbox : Sandboxes \cup {None},
                                  last_callback_invoked : Slots \cup {None}]
           /\ thread_data[t].sandbox = SandboxAt(stack[t], Len(stack[t]))
           /\ stack[t] # <<>> => Len(stack[t]) \in Nat \ {0} /\ Top(t) \in Frames
           /\ stack[t] = <<>> => Len(stack[t]) = 0
BY DEF CallsInv, CallsTypeOK, Top

(* The sandbox a callback has come from.                                   *)
LEMMA CallerOfCallback ==
    ASSUME CallsInv, NEW t \in Threads, stack[t] # <<>>, Top(t).is # "invoke"
    PROVE  /\ Len(stack[t]) > 1 /\ stack[t][Len(stack[t]) - 1].is = "invoke"
           /\ thread_data[t].sandbox = stack[t][Len(stack[t]) - 1].of
           /\ thread_data[t].sandbox \in Sandboxes
<1>1. Len(stack[t]) > 1 /\ stack[t][Len(stack[t]) - 1].is = "invoke"
    BY CallFacts DEF Nested, Top
<1>2. stack[t][Len(stack[t]) - 1] \in Frames
    BY <1>1, CallFacts
<1>3. stack[t][Len(stack[t]) - 1].of \in Sandboxes
    BY <1>1, <1>2 DEF Frames
<1> QED
    BY <1>1, <1>3, CallFacts DEF SandboxAt, Top

LEMMA InvokeCalls ==
    ASSUME CallsInv, NEW t \in Threads, NEW s \in Sandboxes, InProgram(t),
           stack' = [stack EXCEPT ![t] = Append(@, Invocation(s, thread_data[t].sandbox))],
           thread_data' = [thread_data EXCEPT ![t].sandbox = s]
    PROVE  CallsInv'
<1> DEFINE f == Invocation(s, thread_data[t].sandbox)
           c == Append(stack[t], f)
           td == [thread_data[t] EXCEPT !.sandbox = s]
<1>1. f \in Frames /\ f.is = "invoke" /\ f.of = s /\ f.saved = SandboxAt(stack[t], Len(stack[t]))
    BY CallFacts DEF Invocation, Frames
<1> HIDE DEF f
<1>2. Nested(c)
    BY <1>1, CallFacts, NestedPush DEF InProgram, Top
<1>3. c \in Seq(Frames) /\ Len(c) = Len(stack[t]) + 1 /\ c[Len(c)] = f
    BY <1>1, CallFacts
<1>4. SandboxAt(c, Len(c)) = s
    BY <1>1, <1>3, CallFacts DEF SandboxAt
<1>5. td \in [sandbox : Sandboxes \cup {None}, last_callback_invoked : Slots \cup {None}] /\ td.sandbox = s
    BY CallFacts
<1>6. stack' = [stack EXCEPT ![t] = c] /\ thread_data' = [thread_data EXCEPT ![t] = td]
    BY DEF f
<1> HIDE DEF c, td
<1> QED
    BY <1>2, <1>3, <1>4, <1>5, <1>6, CallsOfOne

LEMMA InvocationReturnsCalls ==
    ASSUME CallsInv, NEW t \in Threads, InvocationReturns(t)
    PROVE  CallsInv'
<1> DEFINE c == SubSeq(stack[t], 1, Len(stack[t]) - 1)
           td == [thread_data[t] EXCEPT !.sandbox = Top(t).saved]
<1>1. stack[t] # <<>> /\ Top(t).is = "invoke"
    BY DEF InvocationReturns, InSandbox
<1>2. Nested(c) /\ SandboxAt(c, Len(stack[t]) - 1) = SandboxAt(stack[t], Len(stack[t]) - 1)
    BY <1>1, CallFacts, NestedPop
<1>3. c \in Seq(Frames) /\ Len(c) = Len(stack[t]) - 1
    BY <1>1, CallFacts
<1>4. Top(t).saved = SandboxAt(stack[t], Len(stack[t]) - 1)
    BY <1>1, CallFacts DEF Nested, Top
<1>5. Top(t).saved \in Sandboxes \cup {None}
    BY <1>1, CallFacts DEF Frames
<1>6. td \in [sandbox : Sandboxes \cup {None}, last_callback_invoked : Slots \cup {None}]
      /\ td.sandbox = Top(t).saved
    BY <1>5, CallFacts
<1>7. stack' = [stack EXCEPT ![t] = c] /\ thread_data' = [thread_data EXCEPT ![t] = td]
    BY DEF InvocationReturns, Pop
<1> HIDE DEF c, td
<1> QED
    BY <1>2, <1>3, <1>4, <1>6, <1>7, CallsOfOne

LEMMA CallbackReturnsCalls ==
    ASSUME CallsInv, NEW t \in Threads, CallbackReturns(t)
    PROVE  CallsInv'
<1> DEFINE c == SubSeq(stack[t], 1, Len(stack[t]) - 1)
<1>1. stack[t] # <<>> /\ Top(t).is = "running"
    BY DEF CallbackReturns
<1>2. Nested(c) /\ SandboxAt(c, Len(stack[t]) - 1) = SandboxAt(stack[t], Len(stack[t]) - 1)
    BY <1>1, CallFacts, NestedPop
<1>3. c \in Seq(Frames) /\ Len(c) = Len(stack[t]) - 1
    BY <1>1, CallFacts
<1>4. SandboxAt(stack[t], Len(stack[t]) - 1) = thread_data[t].sandbox
    BY <1>1, CallerOfCallback, CallFacts DEF SandboxAt
<1>5. stack' = [stack EXCEPT ![t] = c] /\ thread_data' = [thread_data EXCEPT ![t] = thread_data[t]]
    BY DEF CallbackReturns, Pop, CallsInv, CallsTypeOK
<1> HIDE DEF c
<1> QED
    BY <1>2, <1>3, <1>4, <1>5, CallFacts, CallsOfOne

LEMMA InterceptorCalls ==
    ASSUME CallsInv, NEW t \in Threads, NEW i \in Indices, CallbackInterceptor(t, i)
    PROVE  CallsInv'
<1> DEFINE n == table[Top(t).of][i]
           c == Append(stack[t], CallbackOf(n))
           td == [thread_data[t] EXCEPT !.last_callback_invoked = n]
<1>1. stack[t] # <<>> /\ Top(t).is = "invoke" /\ n \in Slots
    BY DEF CallbackInterceptor, InSandbox
<1>2. stack' = [stack EXCEPT ![t] = c] /\ thread_data' = [thread_data EXCEPT ![t] = td]
    BY DEF CallbackInterceptor
<1> HIDE DEF n
<1>3. CallbackOf(n) \in Frames /\ CallbackOf(n).is = "entered"
    BY <1>1 DEF CallbackOf, Frames
<1>4. Nested(c)
    BY <1>1, <1>3, CallFacts, NestedPush DEF Top
<1>5. c \in Seq(Frames) /\ Len(c) = Len(stack[t]) + 1 /\ c[Len(c)] = CallbackOf(n)
      /\ c[Len(c) - 1] = Top(t)
    BY <1>1, <1>3, CallFacts DEF Top
<1>6. SandboxAt(c, Len(c)) = thread_data[t].sandbox
    BY <1>1, <1>3, <1>5, CallFacts DEF SandboxAt, Top
<1>7. td \in [sandbox : Sandboxes \cup {None}, last_callback_invoked : Slots \cup {None}]
      /\ td.sandbox = thread_data[t].sandbox
    BY <1>1, CallFacts
<1> HIDE DEF c, td
<1> QED
    BY <1>2, <1>4, <1>5, <1>6, <1>7, CallsOfOne

(* A callback gets one step on.                                            *)
LEMMA CallbackStepCalls ==
    ASSUME CallsInv, NEW t \in Threads, NEW f \in Frames, stack[t] # <<>>,
           Top(t).is # "invoke", f.is # "invoke", f.is = "running" => f.func = f.key,
           Replace(t, f), thread_data' = thread_data
    PROVE  CallsInv'
<1> DEFINE c == [stack[t] EXCEPT ![Len(stack[t])] = f]
<1>1. Nested(c) /\ SandboxAt(c, Len(stack[t])) = SandboxAt(stack[t], Len(stack[t]))
    BY CallFacts, NestedStep DEF Top
<1>2. c \in Seq(Frames) /\ Len(c) = Len(stack[t])
    BY CallFacts
<1>3. stack' = [stack EXCEPT ![t] = c] /\ thread_data' = [thread_data EXCEPT ![t] = thread_data[t]]
    BY DEF Replace, CallsInv, CallsTypeOK
<1> HIDE DEF c
<1>4. thread_data[t].sandbox = SandboxAt(c, Len(c))
    BY <1>1, <1>2, CallFacts
<1>5. thread_data[t] \in [sandbox : Sandboxes \cup {None}, last_callback_invoked : Slots \cup {None}]
    BY CallFacts
<1> QED
    BY <1>1, <1>2, <1>3, <1>4, <1>5, CallsOfOne

-----------------------------------------------------------------------------
(* Sandboxes in use, and callbacks that are being entered                  *)

LEMMA AliveFrame ==
    ASSUME AliveInv, UNCHANGED stack, \A s \in Sandboxes : sandbox[s] => sandbox'[s]
    PROVE  AliveInv'
BY DEF AliveInv, InUse

LEMMA DestroyAlive ==
    ASSUME TablesInv, AliveInv, NEW t \in Threads, NEW s \in Sandboxes, Destroy(t, s)
    PROVE  AliveInv'
BY DEF Destroy, TablesInv, TablesTypeOK, AliveInv, InUse

(* No call into a sandbox is added that is not alive.                      *)
LEMMA AliveOfOne ==
    ASSUME CallsInv, AliveInv, NEW t \in Threads, NEW c, stack' = [stack EXCEPT ![t] = c],
           UNCHANGED sandbox,
           \A j \in 1..Len(c) : c[j].is = "invoke" =>
               \/ sandbox[c[j].of]
               \/ j \in 1..Len(stack[t]) /\ c[j] = stack[t][j]
    PROVE  AliveInv'
<1> SUFFICES ASSUME NEW s \in Sandboxes, NEW u \in Threads, NEW j \in 1..Len(stack'[u]),
                    stack'[u][j].is = "invoke", stack'[u][j].of = s
             PROVE  sandbox[s]
    BY DEF AliveInv, InUse
<1>1. CASE u = t
    BY <1>1 DEF CallsInv, CallsTypeOK, AliveInv, InUse
<1>2. CASE u # t
    BY <1>2 DEF CallsInv, CallsTypeOK, AliveInv, InUse
<1> QED
    BY <1>1, <1>2

LEMMA EnteringFrame ==
    ASSUME EnteringInv, UNCHANGED <<stack, thread_data, callback_unique_keys>>
    PROVE  EnteringInv'
BY DEF EnteringInv, Top

(* The key of a slot changes only while no callback of it is being entered.*)
LEMMA EnteringUndisturbed ==
    ASSUME TablesInv, CallsInv, EnteringInv, NEW s \in Sandboxes, NEW n \in Slots, NEW k,
           UNCHANGED <<stack, thread_data>>,
           callback_unique_keys' = [callback_unique_keys EXCEPT ![s][n] = k],
           callback_unique_keys[s][n] = None \/ ~Entering(s, n)
    PROVE  EnteringInv'
<1> SUFFICES ASSUME NEW t \in Threads, stack[t] # <<>>, Top(t).is \in {"entered", "looked_up"}
             PROVE  callback_unique_keys'[thread_data[t].sandbox][Top(t).n]
                      = callback_unique_keys[thread_data[t].sandbox][Top(t).n]
    BY DEF EnteringInv, Top
<1>1. /\ thread_data[t].sandbox \in Sandboxes
      /\ thread_data[t].sandbox = stack[t][Len(stack[t]) - 1].of
    BY CallerOfCallback
<1>2. Top(t).n \in Slots
    BY CallFacts DEF Frames
<1>3. ~(thread_data[t].sandbox = s /\ Top(t).n = n)
    BY <1>1 DEF EnteringInv, Entering
<1> QED
    BY <1>1, <1>2, <1>3 DEF TablesInv, TablesTypeOK

(* What changes the calls of one thread alone.                             *)
LEMMA EnteringOfOne ==
    ASSUME CallsInv, EnteringInv, NEW t \in Threads, NEW c, NEW td,
           stack' = [stack EXCEPT ![t] = c], thread_data' = [thread_data EXCEPT ![t] = td],
           UNCHANGED callback_unique_keys,
           c # <<>> /\ c[Len(c)].is \in {"entered", "looked_up"} =>
               /\ td.last_callback_invoked = c[Len(c)].n
               /\ callback_unique_keys[td.sandbox][c[Len(c)].n] # None
               /\ c[Len(c)].is = "looked_up" =>
                     c[Len(c)].func = callback_unique_keys[td.sandbox][c[Len(c)].n]
    PROVE  EnteringInv'
<1> SUFFICES ASSUME NEW u \in Threads, stack'[u] # <<>>,
                    stack'[u][Len(stack'[u])].is \in {"entered", "looked_up"}
             PROVE  LET f == stack'[u][Len(stack'[u])] IN
                    /\ thread_data'[u].last_callback_invoked = f.n
                    /\ callback_unique_keys[thread_data'[u].sandbox][f.n] # None
                    /\ f.is = "looked_up" =>
                          f.func = callback_unique_keys[thread_data'[u].sandbox][f.n]
    BY DEF EnteringInv, Top
<1>1. CASE u = t
    BY <1>1 DEF CallsInv, CallsTypeOK
<1>2. CASE u # t
    BY <1>2 DEF CallsInv, CallsTypeOK, EnteringInv, Top
<1> QED
    BY <1>1, <1>2

(* An index of the table that leads to a slot leads to a registered one.   *)
LEMMA SlotHasKey ==
    ASSUME TablesInv, NEW s \in Sandboxes, sandbox[s], NEW i \in Indices, table[s][i] \in Slots
    PROVE  /\ callback_unique_keys[s][table[s][i]] \in Keys
           /\ callbacks[s][table[s][i]] = callback_unique_keys[s][table[s][i]]
BY DEF TablesInv, TablesTypeOK, SlotsAgree, SlotAgrees, IndexAgrees

-----------------------------------------------------------------------------
(* Every action preserves the invariant                                    *)

(* The program ends for want of a slot when every slot has a key of its own.*)
LEMMA FullTable ==
    ASSUME IInv, NEW t \in Threads, NEW s \in Sandboxes, NEW k \in Keys, RegisterFull(t, s, k)
    PROVE  Cardinality(Registered(s)) = MaxCallbacks
<1> DEFINE f == [n \in Slots |-> callback_unique_keys[s][n]]
<1>1. sandbox[s] /\ \A n \in Slots : callbacks[s][n] # None /\ callback_unique_keys[s][n] # None
    BY DEF RegisterFull, FreeSlots, IInv, TablesInv, SlotsAgree, SlotAgrees
<1>2. Registered(s) = {callback_unique_keys[s][n] : n \in Slots}
    BY <1>1 DEF Registered
<1>3. f \in [Slots -> Registered(s)]
    BY <1>2
<1>4. \A m, n \in Slots : f[m] = f[n] => m = n
    BY <1>1 DEF IInv, TablesInv, SlotsExclusive
<1>5. \A k1 \in Registered(s) : \E n \in Slots : f[n] = k1
    BY <1>2
<1> HIDE DEF f
<1>6. f \in Bijection(Slots, Registered(s))
    BY <1>3, <1>4, <1>5 DEF Bijection, Injection, Surjection, IsInjective
<1>7. ExistsBijection(1..MaxCallbacks, Registered(s))
    BY <1>6 DEF ExistsBijection, Slots
<1> QED
    BY <1>7, FS_CountingElements

LEMMA CreateInv ==
    ASSUME IInv, ~aborted, NEW t \in Threads, NEW s \in Sandboxes, Create(t, s)
    PROVE  IInv'
<1>1. TablesInv'
    BY CreateTables DEF IInv
<1>2. CallsInv'
    BY CallsFrame DEF Create, IInv
<1>3. AliveInv'
  <2>1. \A r \in Sandboxes : sandbox[r] => sandbox'[r]
      BY DEF Create, IInv, TablesInv, TablesTypeOK
  <2> QED
      BY <2>1, AliveFrame DEF Create, IInv
<1>4. EnteringInv'
    BY EnteringFrame DEF Create, tables, IInv
<1>5. HeapsTypeOK' /\ CountsTypeOK'
    BY DEF Create, heaps, IInv, HeapsTypeOK, CountsTypeOK
<1>6. AbortsOnlyWhenFull'
    BY DEF Create, heaps, AbortsOnlyWhenFull
<1> QED
    BY <1>1, <1>2, <1>3, <1>4, <1>5, <1>6 DEF IInv

LEMMA DestroyInv ==
    ASSUME IInv, ~aborted, NEW t \in Threads, NEW s \in Sandboxes, Destroy(t, s)
    PROVE  IInv'
<1>1. TablesInv'
    BY DestroyTables DEF IInv
<1>2. CallsInv'
    BY CallsFrame DEF Destroy, IInv
<1>3. AliveInv'
    BY DestroyAlive DEF IInv
<1>4. EnteringInv'
    BY EnteringFrame DEF Destroy, tables, IInv
<1>5. HeapsTypeOK' /\ CountsTypeOK'
    BY DEF Destroy, FreeReturnSlot, IInv, HeapsTypeOK, CountsTypeOK
<1>6. AbortsOnlyWhenFull'
    BY DEF Destroy, FreeReturnSlot, AbortsOnlyWhenFull
<1> QED
    BY <1>1, <1>2, <1>3, <1>4, <1>5, <1>6 DEF IInv

LEMMA CreateFailsInv ==
    ASSUME IInv, ~aborted, NEW t \in Threads, NEW s \in Sandboxes, CreateFails(t, s)
    PROVE  IInv'
<1>1. TablesInv'
    BY TablesFrame DEF CreateFails, IInv
<1>2. CallsInv'
    BY CallsFrame DEF CreateFails, IInv
<1>3. AliveInv'
    BY AliveFrame DEF CreateFails, IInv
<1>4. EnteringInv'
    BY EnteringFrame DEF CreateFails, tables, IInv
<1>5. HeapsTypeOK' /\ CountsTypeOK'
    BY DEF CreateFails, FreeReturnSlot, IInv, HeapsTypeOK, CountsTypeOK
<1>6. AbortsOnlyWhenFull'
    BY DEF CreateFails, FreeReturnSlot, AbortsOnlyWhenFull
<1> QED
    BY <1>1, <1>2, <1>3, <1>4, <1>5, <1>6 DEF IInv

LEMMA RegisterInv ==
    ASSUME IInv, ~aborted, NEW t \in Threads, NEW s \in Sandboxes, NEW k \in Keys, Register(t, s, k)
    PROVE  IInv'
<1>1. TablesInv'
    BY RegisterTables DEF IInv
<1>2. CallsInv'
    BY CallsFrame DEF Register, IInv
<1>3. AliveInv'
    BY AliveFrame DEF Register, IInv
<1>4. EnteringInv'
  <2>1. PICK n \in FreeSlots(s) :
            callback_unique_keys' = [callback_unique_keys EXCEPT ![s][n] = k]
      BY DEF Register
  <2>2. n \in Slots /\ callback_unique_keys[s][n] = None
      BY DEF Register, FreeSlots, IInv, TablesInv, SlotsAgree, SlotAgrees
  <2> QED
      BY <2>1, <2>2, EnteringUndisturbed DEF Register, IInv
<1>5. HeapsTypeOK' /\ CountsTypeOK'
    BY DEF Register, heaps, IInv, HeapsTypeOK, CountsTypeOK
<1>6. AbortsOnlyWhenFull'
    BY DEF Register, heaps, AbortsOnlyWhenFull
<1> QED
    BY <1>1, <1>2, <1>3, <1>4, <1>5, <1>6 DEF IInv

LEMMA UnregisterInv ==
    ASSUME IInv, ~aborted, NEW t \in Threads, NEW s \in Sandboxes, NEW k \in Keys, Unregister(t, s, k)
    PROVE  IInv'
<1>1. TablesInv'
    BY UnregisterTables DEF IInv
<1>2. CallsInv'
    BY CallsFrame DEF Unregister, IInv
<1>3. AliveInv'
    BY AliveFrame DEF Unregister, IInv
<1>4. EnteringInv'
  <2>1. PICK n \in Slots :
            /\ ~Entering(s, n)
            /\ callback_unique_keys' = [callback_unique_keys EXCEPT ![s][n] = None]
      BY DEF Unregister
  <2> QED
      BY <2>1, EnteringUndisturbed DEF Unregister, IInv
<1>5. HeapsTypeOK' /\ CountsTypeOK'
    BY DEF Unregister, heaps, IInv, HeapsTypeOK, CountsTypeOK
<1>6. AbortsOnlyWhenFull'
    BY DEF Unregister, heaps, AbortsOnlyWhenFull
<1> QED
    BY <1>1, <1>2, <1>3, <1>4, <1>5, <1>6 DEF IInv

LEMMA GetSandboxedPointerInv ==
    ASSUME IInv, ~aborted, NEW t \in Threads, NEW s \in Sandboxes, NEW f \in Internals,
           GetSandboxedPointer(t, s, f)
    PROVE  IInv'
<1>1. TablesInv'
    BY PointerTables DEF IInv
<1>2. CallsInv'
    BY CallsFrame DEF GetSandboxedPointer, IInv
<1>3. AliveInv'
    BY AliveFrame DEF GetSandboxedPointer, IInv
<1>4. EnteringInv'
    BY EnteringFrame DEF GetSandboxedPointer, tables, IInv
<1>5. HeapsTypeOK' /\ CountsTypeOK'
    BY DEF GetSandboxedPointer, heaps, IInv, HeapsTypeOK, CountsTypeOK
<1>6. AbortsOnlyWhenFull'
    BY DEF GetSandboxedPointer, heaps, AbortsOnlyWhenFull
<1> QED
    BY <1>1, <1>2, <1>3, <1>4, <1>5, <1>6 DEF IInv

LEMMA RegisterFullInv ==
    ASSUME IInv, NEW t \in Threads, NEW s \in Sandboxes, NEW k \in Keys, RegisterFull(t, s, k)
    PROVE  IInv'
<1>1. TablesInv'
    BY TablesFrame DEF RegisterFull, IInv
<1>2. CallsInv' /\ AliveInv' /\ EnteringInv'
    BY CallsFrame, AliveFrame, EnteringFrame DEF RegisterFull, tables, IInv
<1>3. HeapsTypeOK' /\ CountsTypeOK'
    BY DEF RegisterFull, heaps, IInv, HeapsTypeOK, CountsTypeOK
<1>4. Cardinality(Registered(s)) = MaxCallbacks
    BY FullTable
<1>5. Registered(s)' = Registered(s)
    BY DEF RegisterFull, Registered, tables
<1>6. AbortsOnlyWhenFull'
    BY <1>4, <1>5 DEF AbortsOnlyWhenFull
<1> QED
    BY <1>1, <1>2, <1>3, <1>6 DEF IInv

LEMMA InvokeWithFuncPtrInv ==
    ASSUME IInv, ~aborted, NEW t \in Threads, NEW s \in Sandboxes, InvokeWithFuncPtr(t, s)
    PROVE  IInv'
<1>1. TablesInv'
    BY TablesFrame DEF InvokeWithFuncPtr, IInv
<1>2. CallsInv'
    BY InvokeCalls DEF InvokeWithFuncPtr, IInv
<1>3. AliveInv'
  <2> DEFINE c == Append(stack[t], Invocation(s, thread_data[t].sandbox))
  <2>1. stack[t] \in Seq(Frames)
      BY CallFacts DEF IInv
  <2>2. \A j \in 1..Len(c) : \/ c[j] = Invocation(s, thread_data[t].sandbox)
                             \/ j \in 1..Len(stack[t]) /\ c[j] = stack[t][j]
      BY <2>1
  <2>3. sandbox[s] /\ sandbox' = sandbox /\ stack' = [stack EXCEPT ![t] = c]
      BY DEF InvokeWithFuncPtr
  <2>4. \A j \in 1..Len(c) : c[j].is = "invoke" =>
            \/ sandbox[c[j].of]
            \/ j \in 1..Len(stack[t]) /\ c[j] = stack[t][j]
      BY <2>2, <2>3 DEF Invocation
  <2> HIDE DEF c
  <2> QED
      BY <2>3, <2>4, AliveOfOne DEF IInv
<1>4. EnteringInv'
  <2> DEFINE c == Append(stack[t], Invocation(s, thread_data[t].sandbox))
             td == [thread_data[t] EXCEPT !.sandbox = s]
  <2>1. stack[t] \in Seq(Frames)
      BY CallFacts DEF IInv
  <2>2. c[Len(c)].is = "invoke"
      BY <2>1 DEF Invocation
  <2>3. stack' = [stack EXCEPT ![t] = c] /\ thread_data' = [thread_data EXCEPT ![t] = td]
        /\ callback_unique_keys' = callback_unique_keys
      BY DEF InvokeWithFuncPtr, tables
  <2> HIDE DEF c, td
  <2> QED
      BY <2>2, <2>3, EnteringOfOne DEF IInv
<1>5. HeapsTypeOK' /\ CountsTypeOK'
    BY DEF InvokeWithFuncPtr, heaps, IInv, HeapsTypeOK, CountsTypeOK
<1>6. AbortsOnlyWhenFull'
    BY DEF InvokeWithFuncPtr, heaps, AbortsOnlyWhenFull
<1> QED
    BY <1>1, <1>2, <1>3, <1>4, <1>5, <1>6 DEF IInv

LEMMA InvokeReturningClassInv ==
    ASSUME IInv, ~aborted, NEW t \in Threads, NEW s \in Sandboxes, NEW size \in Sizes,
           InvokeReturningClass(t, s, size)
    PROVE  IInv'
<1>1. TablesInv'
    BY TablesFrame DEF InvokeReturningClass, IInv
<1>2. CallsInv'
    BY InvokeCalls DEF InvokeReturningClass, IInv
<1>3. AliveInv'
  <2> DEFINE c == Append(stack[t], Invocation(s, thread_data[t].sandbox))
  <2>1. stack[t] \in Seq(Frames)
      BY CallFacts DEF IInv
  <2>2. \A j \in 1..Len(c) : \/ c[j] = Invocation(s, thread_data[t].sandbox)
                             \/ j \in 1..Len(stack[t]) /\ c[j] = stack[t][j]
      BY <2>1
  <2>3. sandbox[s] /\ sandbox' = sandbox /\ stack' = [stack EXCEPT ![t] = c]
      BY DEF InvokeReturningClass
  <2>4. \A j \in 1..Len(c) : c[j].is = "invoke" =>
            \/ sandbox[c[j].of]
            \/ j \in 1..Len(stack[t]) /\ c[j] = stack[t][j]
      BY <2>2, <2>3 DEF Invocation
  <2> HIDE DEF c
  <2> QED
      BY <2>3, <2>4, AliveOfOne DEF IInv
<1>4. EnteringInv'
  <2> DEFINE c == Append(stack[t], Invocation(s, thread_data[t].sandbox))
             td == [thread_data[t] EXCEPT !.sandbox = s]
  <2>1. stack[t] \in Seq(Frames)
      BY CallFacts DEF IInv
  <2>2. c[Len(c)].is = "invoke"
      BY <2>1 DEF Invocation
  <2>3. stack' = [stack EXCEPT ![t] = c] /\ thread_data' = [thread_data EXCEPT ![t] = td]
        /\ callback_unique_keys' = callback_unique_keys
      BY DEF InvokeReturningClass, tables
  <2> HIDE DEF c, td
  <2> QED
      BY <2>2, <2>3, EnteringOfOne DEF IInv
<1>5. HeapsTypeOK' /\ CountsTypeOK'
    BY DEF InvokeReturningClass, FreeReturnSlot, heaps, IInv, HeapsTypeOK, CountsTypeOK
<1>6. AbortsOnlyWhenFull'
    BY DEF InvokeReturningClass, FreeReturnSlot, heaps, AbortsOnlyWhenFull
<1> QED
    BY <1>1, <1>2, <1>3, <1>4, <1>5, <1>6 DEF IInv

LEMMA InvocationReturnsInv ==
    ASSUME IInv, ~aborted, NEW t \in Threads, InvocationReturns(t)
    PROVE  IInv'
<1> DEFINE c == SubSeq(stack[t], 1, Len(stack[t]) - 1)
           td == [thread_data[t] EXCEPT !.sandbox = Top(t).saved]
<1>a. /\ stack[t] # <<>> /\ sandbox' = sandbox
      /\ stack' = [stack EXCEPT ![t] = c] /\ thread_data' = [thread_data EXCEPT ![t] = td]
      /\ callback_unique_keys' = callback_unique_keys
    BY DEF InvocationReturns, InSandbox, Pop, tables, IInv, CallsInv, CallsTypeOK
<1>b. Len(c) = Len(stack[t]) - 1 /\ \A j \in 1..Len(c) : j \in 1..Len(stack[t]) /\ c[j] = stack[t][j]
    BY <1>a, CallFacts DEF IInv
<1>c. c # <<>> => c[Len(c)].is \notin {"entered", "looked_up"}
  <2>1. Len(stack[t]) \in Nat /\ Nested(stack[t])
      BY <1>a, CallFacts DEF IInv
  <2>2. c # <<>> => Len(c) \in 1..Len(c)
      BY <1>a, <1>b, <2>1, CallFacts DEF IInv
  <2> HIDE DEF c
  <2> QED
      BY <1>b, <2>1, <2>2 DEF Nested
<1> HIDE DEF c, td
<1>1. TablesInv'
    BY TablesFrame DEF InvocationReturns, IInv
<1>2. CallsInv'
    BY InvocationReturnsCalls DEF IInv
<1>3. AliveInv'
  <2> QED
      BY <1>a, <1>b, AliveOfOne DEF IInv
<1>4. EnteringInv'
  <2> QED
      BY <1>a, <1>b, <1>c, EnteringOfOne DEF IInv
<1>5. HeapsTypeOK' /\ CountsTypeOK'
    BY DEF InvocationReturns, heaps, IInv, HeapsTypeOK, CountsTypeOK
<1>6. AbortsOnlyWhenFull'
    BY DEF InvocationReturns, heaps, AbortsOnlyWhenFull
<1> QED
    BY <1>1, <1>2, <1>3, <1>4, <1>5, <1>6 DEF IInv

LEMMA CallbackReturnsInv ==
    ASSUME IInv, ~aborted, NEW t \in Threads, CallbackReturns(t)
    PROVE  IInv'
<1> DEFINE c == SubSeq(stack[t], 1, Len(stack[t]) - 1)
           td == thread_data[t]
<1>a. /\ stack[t] # <<>> /\ sandbox' = sandbox
      /\ stack' = [stack EXCEPT ![t] = c] /\ thread_data' = [thread_data EXCEPT ![t] = td]
      /\ callback_unique_keys' = callback_unique_keys
    BY DEF CallbackReturns, InSandbox, Pop, tables, IInv, CallsInv, CallsTypeOK
<1>b. Len(c) = Len(stack[t]) - 1 /\ \A j \in 1..Len(c) : j \in 1..Len(stack[t]) /\ c[j] = stack[t][j]
    BY <1>a, CallFacts DEF IInv
<1>c. c # <<>> => c[Len(c)].is \notin {"entered", "looked_up"}
  <2>1. Len(stack[t]) \in Nat /\ Nested(stack[t])
      BY <1>a, CallFacts DEF IInv
  <2>2. c # <<>> => Len(c) \in 1..Len(c)
      BY <1>a, <1>b, <2>1, CallFacts DEF IInv
  <2> HIDE DEF c
  <2> QED
      BY <1>b, <2>1, <2>2 DEF Nested
<1> HIDE DEF c, td
<1>1. TablesInv'
    BY TablesFrame DEF CallbackReturns, IInv
<1>2. CallsInv'
    BY CallbackReturnsCalls DEF IInv
<1>3. AliveInv'
  <2> QED
      BY <1>a, <1>b, AliveOfOne DEF IInv
<1>4. EnteringInv'
  <2> QED
      BY <1>a, <1>b, <1>c, EnteringOfOne DEF IInv
<1>5. HeapsTypeOK' /\ CountsTypeOK'
    BY DEF CallbackReturns, heaps, IInv, HeapsTypeOK, CountsTypeOK
<1>6. AbortsOnlyWhenFull'
    BY DEF CallbackReturns, heaps, AbortsOnlyWhenFull
<1> QED
    BY <1>1, <1>2, <1>3, <1>4, <1>5, <1>6 DEF IInv

LEMMA InterceptorInv ==
    ASSUME IInv, ~aborted, NEW t \in Threads, NEW i \in Indices, CallbackInterceptor(t, i)
    PROVE  IInv'
<1> DEFINE n == table[Top(t).of][i]
           c == Append(stack[t], CallbackOf(n))
           td == [thread_data[t] EXCEPT !.last_callback_invoked = n]
<1>b. /\ stack' = [stack EXCEPT ![t] = c] /\ thread_data' = [thread_data EXCEPT ![t] = td]
      /\ callback_unique_keys' = callback_unique_keys /\ sandbox' = sandbox
    BY DEF CallbackInterceptor, tables
<1>a. /\ stack[t] \in Seq(Frames) /\ stack[t] # <<>> /\ Top(t).is = "invoke"
      /\ n \in Slots /\ n = table[Top(t).of][i]
      /\ Top(t).of \in Sandboxes /\ sandbox[Top(t).of]
      /\ thread_data[t].sandbox = Top(t).of
      /\ thread_data[t] \in [sandbox : Sandboxes \cup {None}, last_callback_invoked : Slots \cup {None}]
  <2>1. stack[t] # <<>> /\ Top(t).is = "invoke" /\ n \in Slots
      BY DEF CallbackInterceptor, InSandbox
  <2>2. Top(t) \in Frames /\ Len(stack[t]) \in Nat \ {0}
      BY <2>1, CallFacts DEF IInv
  <2>3. Top(t).of \in Sandboxes
      BY <2>1, <2>2 DEF Frames
  <2>4. InUse(Top(t).of)
      BY <2>1, <2>2 DEF InUse, Top
  <2> QED
      BY <2>1, <2>2, <2>3, <2>4, CallFacts DEF IInv, AliveInv, SandboxAt, Top
<1> HIDE DEF n, c, td
<1>1. TablesInv'
    BY TablesFrame DEF CallbackInterceptor, IInv
<1>2. CallsInv'
    BY InterceptorCalls DEF IInv
<1>3. AliveInv'
  <2>1. \A j \in 1..Len(c) : c[j].is = "invoke" => j \in 1..Len(stack[t]) /\ c[j] = stack[t][j]
      BY <1>a DEF CallbackOf, c
  <2> QED
      BY <1>b, <2>1, AliveOfOne DEF IInv
<1>4. EnteringInv'
  <2>1. c[Len(c)] = CallbackOf(n) /\ CallbackOf(n).is = "entered" /\ CallbackOf(n).n = n
      BY <1>a DEF CallbackOf, c
  <2>2. td.last_callback_invoked = n /\ td.sandbox = Top(t).of
      BY <1>a DEF td
  <2>3. callback_unique_keys[Top(t).of][n] # None
      BY <1>a, SlotHasKey DEF IInv
  <2> QED
      BY <1>b, <2>1, <2>2, <2>3, EnteringOfOne DEF IInv
<1>5. HeapsTypeOK' /\ CountsTypeOK'
    BY DEF CallbackInterceptor, heaps, IInv, HeapsTypeOK, CountsTypeOK
<1>6. AbortsOnlyWhenFull'
    BY DEF CallbackInterceptor, heaps, AbortsOnlyWhenFull
<1> QED
    BY <1>1, <1>2, <1>3, <1>4, <1>5, <1>6 DEF IInv

LEMMA LookUpCallbackInv ==
    ASSUME IInv, ~aborted, NEW t \in Threads, LookUpCallback(t)
    PROVE  IInv'
<1> DEFINE f == [Top(t) EXCEPT !.is = "looked_up", !.func = callbacks[thread_data[t].sandbox][Top(t).n]]
           c == [stack[t] EXCEPT ![Len(stack[t])] = f]
<1>a. stack[t] # <<>> /\ Top(t).is = "entered" /\ Replace(t, f)
    BY DEF LookUpCallback
<1>b. /\ Top(t) \in Frames /\ Top(t).n \in Slots /\ thread_data[t].sandbox \in Sandboxes
      /\ thread_data[t].last_callback_invoked = Top(t).n
      /\ sandbox[thread_data[t].sandbox]
  <2>1. Top(t) \in Frames
      BY <1>a, CallFacts DEF IInv
  <2>2. Len(stack[t]) > 1 /\ stack[t][Len(stack[t]) - 1].is = "invoke"
        /\ thread_data[t].sandbox = stack[t][Len(stack[t]) - 1].of /\ thread_data[t].sandbox \in Sandboxes
      BY <1>a, CallerOfCallback DEF IInv
  <2>6. Len(stack[t]) - 1 \in 1..Len(stack[t])
      BY <1>a, <2>2, CallFacts DEF IInv
  <2>3. InUse(thread_data[t].sandbox)
      BY <2>2, <2>6 DEF InUse
  <2>4. Top(t).n \in Slots
      BY <1>a, <2>1 DEF Frames
  <2>5. thread_data[t].last_callback_invoked = Top(t).n
      BY <1>a DEF IInv, EnteringInv
  <2> QED
      BY <2>1, <2>2, <2>3, <2>4, <2>5 DEF IInv, AliveInv
<1>c. f \in Frames /\ f.is = "looked_up" /\ f.n = Top(t).n
      /\ f.func = callbacks[thread_data[t].sandbox][Top(t).n]
  <2>1. Top(t) \in [is : {"entered", "looked_up", "running"}, n : Slots,
                   func : Keys \cup {None}, key : Keys \cup {None}]
      BY <1>a, <1>b DEF Frames
  <2>2. callbacks[thread_data[t].sandbox][Top(t).n] \in Keys \cup {None}
        /\ callback_unique_keys[thread_data[t].sandbox][Top(t).n] \in Keys \cup {None}
      BY <1>b DEF IInv, TablesInv, TablesTypeOK
  <2> QED
      BY <1>b, <2>1, <2>2 DEF Frames
<1>d. /\ stack' = [stack EXCEPT ![t] = c] /\ thread_data' = [thread_data EXCEPT ![t] = thread_data[t]]
      /\ sandbox' = sandbox /\ callback_unique_keys' = callback_unique_keys
      /\ Len(c) = Len(stack[t]) /\ c[Len(c)] = f /\ f.is = "looked_up"
      /\ \A j \in 1..Len(c) : c[j] = f \/ c[j] = stack[t][j]
  <2>1. stack' = [stack EXCEPT ![t] = c] /\ thread_data' = [thread_data EXCEPT ![t] = thread_data[t]]
      BY DEF LookUpCallback, Replace, IInv, CallsInv, CallsTypeOK
  <2>2. Len(c) = Len(stack[t]) /\ c[Len(c)] = f /\ \A j \in 1..Len(c) : c[j] = f \/ c[j] = stack[t][j]
      BY <1>a, <1>c, CallFacts DEF IInv
  <2> QED
      BY <1>c, <2>1, <2>2 DEF LookUpCallback, tables
<1> HIDE DEF f, c
<1>1. TablesInv'
    BY TablesFrame DEF LookUpCallback, IInv
<1>2. CallsInv'
  <2>1. f.is = "running" => f.func = f.key
      BY <1>a, <1>b, <1>c DEF IInv, EnteringInv
  <2> QED
      BY <1>a, <1>c, <2>1, CallbackStepCalls DEF LookUpCallback, IInv
<1>3. AliveInv'
  <2> QED
      BY <1>d, AliveOfOne DEF IInv
<1>4. EnteringInv'
  <2>1. f.func = callback_unique_keys[thread_data[t].sandbox][f.n] /\ f.n = Top(t).n
      BY <1>b, <1>c DEF IInv, TablesInv, SlotsAgree, SlotAgrees
  <2>2. /\ thread_data[t].last_callback_invoked = Top(t).n
        /\ callback_unique_keys[thread_data[t].sandbox][Top(t).n] # None
      BY <1>a DEF IInv, EnteringInv
  <2> QED
      BY <1>d, <2>1, <2>2, EnteringOfOne DEF IInv
<1>5. HeapsTypeOK' /\ CountsTypeOK'
    BY DEF LookUpCallback, heaps, IInv, HeapsTypeOK, CountsTypeOK
<1>6. AbortsOnlyWhenFull'
    BY DEF LookUpCallback, heaps, AbortsOnlyWhenFull
<1> QED
    BY <1>1, <1>2, <1>3, <1>4, <1>5, <1>6 DEF IInv

LEMMA GetExecutedCallbackSandboxAndKeyInv ==
    ASSUME IInv, ~aborted, NEW t \in Threads, GetExecutedCallbackSandboxAndKey(t)
    PROVE  IInv'
<1> DEFINE f == [Top(t) EXCEPT !.is = "running",
                             !.key = callback_unique_keys[thread_data[t].sandbox]
                                                         [thread_data[t].last_callback_invoked]]
           c == [stack[t] EXCEPT ![Len(stack[t])] = f]
<1>a. stack[t] # <<>> /\ Top(t).is = "looked_up" /\ Replace(t, f)
    BY DEF GetExecutedCallbackSandboxAndKey
<1>b. /\ Top(t) \in Frames /\ Top(t).n \in Slots /\ thread_data[t].sandbox \in Sandboxes
      /\ thread_data[t].last_callback_invoked = Top(t).n
      /\ sandbox[thread_data[t].sandbox]
  <2>1. Top(t) \in Frames
      BY <1>a, CallFacts DEF IInv
  <2>2. Len(stack[t]) > 1 /\ stack[t][Len(stack[t]) - 1].is = "invoke"
        /\ thread_data[t].sandbox = stack[t][Len(stack[t]) - 1].of /\ thread_data[t].sandbox \in Sandboxes
      BY <1>a, CallerOfCallback DEF IInv
  <2>6. Len(stack[t]) - 1 \in 1..Len(stack[t])
      BY <1>a, <2>2, CallFacts DEF IInv
  <2>3. InUse(thread_data[t].sandbox)
      BY <2>2, <2>6 DEF InUse
  <2>4. Top(t).n \in Slots
      BY <1>a, <2>1 DEF Frames
  <2>5. thread_data[t].last_callback_invoked = Top(t).n
      BY <1>a DEF IInv, EnteringInv
  <2> QED
      BY <2>1, <2>2, <2>3, <2>4, <2>5 DEF IInv, AliveInv
<1>c. f \in Frames /\ f.is = "running" /\ f.n = Top(t).n
      /\ f.func = Top(t).func /\ f.key = callback_unique_keys[thread_data[t].sandbox][Top(t).n]
  <2>1. Top(t) \in [is : {"entered", "looked_up", "running"}, n : Slots,
                   func : Keys \cup {None}, key : Keys \cup {None}]
      BY <1>a, <1>b DEF Frames
  <2>2. callbacks[thread_data[t].sandbox][Top(t).n] \in Keys \cup {None}
        /\ callback_unique_keys[thread_data[t].sandbox][Top(t).n] \in Keys \cup {None}
      BY <1>b DEF IInv, TablesInv, TablesTypeOK
  <2> QED
      BY <1>b, <2>1, <2>2 DEF Frames
<1>d. /\ stack' = [stack EXCEPT ![t] = c] /\ thread_data' = [thread_data EXCEPT ![t] = thread_data[t]]
      /\ sandbox' = sandbox /\ callback_unique_keys' = callback_unique_keys
      /\ Len(c) = Len(stack[t]) /\ c[Len(c)] = f /\ f.is = "running"
      /\ \A j \in 1..Len(c) : c[j] = f \/ c[j] = stack[t][j]
  <2>1. stack' = [stack EXCEPT ![t] = c] /\ thread_data' = [thread_data EXCEPT ![t] = thread_data[t]]
      BY DEF GetExecutedCallbackSandboxAndKey, Replace, IInv, CallsInv, CallsTypeOK
  <2>2. Len(c) = Len(stack[t]) /\ c[Len(c)] = f /\ \A j \in 1..Len(c) : c[j] = f \/ c[j] = stack[t][j]
      BY <1>a, <1>c, CallFacts DEF IInv
  <2> QED
      BY <1>c, <2>1, <2>2 DEF GetExecutedCallbackSandboxAndKey, tables
<1> HIDE DEF f, c
<1>1. TablesInv'
    BY TablesFrame DEF GetExecutedCallbackSandboxAndKey, IInv
<1>2. CallsInv'
  <2>1. f.is = "running" => f.func = f.key
      BY <1>a, <1>b, <1>c DEF IInv, EnteringInv
  <2> QED
      BY <1>a, <1>c, <2>1, CallbackStepCalls DEF GetExecutedCallbackSandboxAndKey, IInv
<1>3. AliveInv'
  <2> QED
      BY <1>d, AliveOfOne DEF IInv
<1>4. EnteringInv'
  <2> QED
      BY <1>d, EnteringOfOne DEF IInv
<1>5. HeapsTypeOK' /\ CountsTypeOK'
    BY DEF GetExecutedCallbackSandboxAndKey, heaps, IInv, HeapsTypeOK, CountsTypeOK
<1>6. AbortsOnlyWhenFull'
    BY DEF GetExecutedCallbackSandboxAndKey, heaps, AbortsOnlyWhenFull
<1> QED
    BY <1>1, <1>2, <1>3, <1>4, <1>5, <1>6 DEF IInv

-----------------------------------------------------------------------------
(* The theorems                                                            *)

LEMMA InitInv == Init => IInv
<1> SUFFICES ASSUME Init PROVE IInv
    OBVIOUS
<1>1. \A t \in Threads : stack[t] = <<>> /\ Len(stack[t]) = 0
    BY DEF Init
<1>2. TablesInv
    BY DEF Init, TablesInv, TablesTypeOK, SlotsAgree, SlotAgrees, IndexAgrees, SlotsExclusive, DeadTables,
           Slots
<1>3. CallsInv
    BY <1>1 DEF Init, CallsInv, CallsTypeOK, Nested, SandboxAt
<1>4. AliveInv /\ EnteringInv
    BY <1>1 DEF AliveInv, InUse, EnteringInv
<1>5. HeapsTypeOK /\ CountsTypeOK /\ AbortsOnlyWhenFull
    BY DEF Init, HeapsTypeOK, CountsTypeOK, AbortsOnlyWhenFull
<1> QED
    BY <1>2, <1>3, <1>4, <1>5 DEF IInv

LEMMA StutterInv == ASSUME IInv, UNCHANGED vars PROVE IInv'
<1>1. TablesInv' /\ CallsInv'
    BY TablesFrame, CallsFrame DEF IInv, vars
<1>2. AliveInv' /\ EnteringInv'
    BY AliveFrame, EnteringFrame DEF IInv, vars, tables
<1>3. HeapsTypeOK' /\ CountsTypeOK'
    BY DEF IInv, HeapsTypeOK, CountsTypeOK, vars, heaps
<1> QED
    BY <1>1, <1>2, <1>3 DEF IInv, AbortsOnlyWhenFull, Registered, vars, tables

LEMMA NextInv == ASSUME IInv, [Next]_vars PROVE IInv'
<1>1. CASE UNCHANGED vars
    BY <1>1, StutterInv
<1>2. CASE Next
  <2> SUFFICES ASSUME ~aborted, Step PROVE IInv'
      BY <1>2 DEF Next
  <2>1. ASSUME NEW t \in Threads, NEW s \in Sandboxes,
               \/ Create(t, s) \/ Destroy(t, s) \/ CreateFails(t, s)
               \/ InvokeWithFuncPtr(t, s)
        PROVE  IInv'
      BY <2>1, CreateInv, DestroyInv, CreateFailsInv, InvokeWithFuncPtrInv
  <2>2. ASSUME NEW t \in Threads, NEW s \in Sandboxes, NEW k \in Keys,
               Register(t, s, k) \/ RegisterFull(t, s, k) \/ Unregister(t, s, k)
        PROVE  IInv'
      BY <2>2, RegisterInv, RegisterFullInv, UnregisterInv
  <2>3. ASSUME NEW t \in Threads, NEW s \in Sandboxes, NEW f \in Internals, GetSandboxedPointer(t, s, f)
        PROVE  IInv'
      BY <2>3, GetSandboxedPointerInv
  <2>4. ASSUME NEW t \in Threads, NEW s \in Sandboxes, NEW size \in Sizes, InvokeReturningClass(t, s, size)
        PROVE  IInv'
      BY <2>4, InvokeReturningClassInv
  <2>5. ASSUME NEW t \in Threads, NEW i \in Indices, CallbackInterceptor(t, i)
        PROVE  IInv'
      BY <2>5, InterceptorInv
  <2>6. ASSUME NEW t \in Threads,
               \/ InvocationReturns(t) \/ LookUpCallback(t)
               \/ GetExecutedCallbackSandboxAndKey(t) \/ CallbackReturns(t)
        PROVE  IInv'
      BY <2>6, InvocationReturnsInv, LookUpCallbackInv, GetExecutedCallbackSandboxAndKeyInv,
         CallbackReturnsInv
  <2> QED
      BY <2>1, <2>2, <2>3, <2>4, <2>5, <2>6 DEF Step
<1> QED
    BY <1>1, <1>2

THEOREM Invariance == Spec => []IInv
BY InitInv, NextInv, PTL DEF Spec

(* The tables of the objects and of their modules describe the same        *)
(* callbacks, one slot for each key, whatever is registered, unregistered, *)
(* destroyed and created again.                                            *)
THEOREM TablesCorrect == Spec => []TablesExact
<1>1. IInv => TablesExact
    BY DEF IInv, TablesInv, CallsInv, TablesExact, TypeOK
<1> QED
    BY <1>1, Invariance, PTL

(* A program ends for want of a slot only with MAX_CALLBACKS registered:   *)
(* no slot is lost.                                                        *)
THEOREM SlotsGivenBack == Spec => []AbortsOnlyWhenFull
<1>1. IInv => AbortsOnlyWhenFull
    BY DEF IInv
<1> QED
    BY <1>1, Invariance, PTL

-----------------------------------------------------------------------------
(* Calls as CallbackTable sees them                                        *)

LEMMA SeenFacts ==
    ASSUME NEW c \in Seq(Frames), NEW sb, NEW keys, NEW S,
           \A j \in 1..Len(c) : CallWith(sb, keys, c[j]) \in S
    PROVE  /\ Seen(sb, keys, c) \in Seq(S)
           /\ Len(Seen(sb, keys, c)) = Len(c)
           /\ \A j \in 1..Len(c) : Seen(sb, keys, c)[j] = CallWith(sb, keys, c[j])
           /\ Seen(sb, keys, c) = <<>> <=> c = <<>>
<1> DEFINE d == Seen(sb, keys, c)
<1>1. d \in [1..Len(c) -> S]
    BY DEF Seen
<1>2. \A j \in 1..Len(c) : d[j] = CallWith(sb, keys, c[j])
    BY DEF Seen
<1>3. Len(c) \in Nat /\ (c = <<>> <=> Len(c) = 0)
    OBVIOUS
<1> HIDE DEF d
<1>4. d \in Seq(S) /\ Len(d) = Len(c)
    BY <1>1, <1>3
<1>5. d = <<>> <=> c = <<>>
    BY <1>3, <1>4
<1> QED
    BY <1>2, <1>4, <1>5 DEF d

(* What is seen of any calls is a sequence, as long as the calls.          *)
LEMMA SeenLen ==
    ASSUME NEW c \in Seq(Frames), NEW sb, NEW keys
    PROVE  /\ \E S : Seen(sb, keys, c) \in Seq(S)
           /\ Len(Seen(sb, keys, c)) = Len(c) /\ Len(c) \in Nat
           /\ DOMAIN Seen(sb, keys, c) = 1..Len(c)
           /\ \A j \in 1..Len(c) : Seen(sb, keys, c)[j] = CallWith(sb, keys, c[j])
           /\ Seen(sb, keys, c) = <<>> <=> c = <<>>
<1> DEFINE V == {CallWith(sb, keys, c[j]) : j \in 1..Len(c)}
<1>1. \A j \in 1..Len(c) : CallWith(sb, keys, c[j]) \in V
    OBVIOUS
<1> HIDE DEF V
<1>2. Seen(sb, keys, c) \in Seq(V)
    BY <1>1, SeenFacts
<1>3. /\ Len(Seen(sb, keys, c)) = Len(c)
      /\ \A j \in 1..Len(c) : Seen(sb, keys, c)[j] = CallWith(sb, keys, c[j])
    BY <1>1, SeenFacts
<1>4. Seen(sb, keys, c) = <<>> <=> c = <<>>
    BY <1>1, SeenFacts
<1>5. DOMAIN Seen(sb, keys, c) = 1..Len(c)
    BY DEF Seen
<1>6. Len(c) \in Nat
    OBVIOUS
<1> QED
    BY <1>2, <1>3, <1>4, <1>5, <1>6

(* Calls that have been entered are seen the same from everywhere.         *)
LEMMA SeenAnywhere ==
    ASSUME NEW c \in Seq(Frames), NEW sb, NEW sb1, NEW keys,
           \A j \in 1..Len(c) : c[j].is \in {"invoke", "running"}
    PROVE  Seen(sb1, keys, c) = Seen(sb, keys, c)
<1>1. \A j \in 1..Len(c) : CallWith(sb1, keys, c[j]) = CallWith(sb, keys, c[j])
    BY DEF CallWith
<1> QED
    BY <1>1 DEF Seen

LEMMA SeenPush ==
    ASSUME NEW c \in Seq(Frames), NEW f \in Frames, NEW sb, NEW keys
    PROVE  Seen(sb, keys, Append(c, f)) = Append(Seen(sb, keys, c), CallWith(sb, keys, f))
<1> DEFINE b == Append(c, f)
           x == CallWith(sb, keys, f)
           g == Seen(sb, keys, c)
           d == Seen(sb, keys, b)
           e == Append(g, x)
<1>1. /\ b \in Seq(Frames) /\ Len(b) = Len(c) + 1 /\ Len(c) \in Nat
      /\ \A j \in 1..Len(c) : b[j] = c[j]
      /\ b[Len(c) + 1] = f
    OBVIOUS
<1> HIDE DEF b
<1>2. DOMAIN d = 1..Len(b) /\ \A j \in 1..Len(b) : d[j] = CallWith(sb, keys, b[j])
    BY <1>1, SeenLen
<1>3. PICK S : g \in Seq(S)
    BY SeenLen
<1>4. Len(g) = Len(c) /\ \A j \in 1..Len(c) : g[j] = CallWith(sb, keys, c[j])
    BY SeenLen
<1> HIDE DEF g, d, x
<1>5. g \in Seq(S \cup {x})
    BY <1>3
<1>6. /\ e \in Seq(S \cup {x}) /\ Len(e) = Len(g) + 1
      /\ \A j \in 1..Len(g) : e[j] = g[j]
      /\ e[Len(g) + 1] = x
    BY <1>5
<1>7. /\ \A j \in 1..Len(c) : e[j] = CallWith(sb, keys, c[j])
      /\ e[Len(c) + 1] = x
    BY <1>4, <1>6
<1> HIDE DEF e
<1>8. \A j \in 1..(Len(c) + 1) : d[j] = e[j]
  <2> SUFFICES ASSUME NEW j \in 1..(Len(c) + 1) PROVE d[j] = e[j]
      OBVIOUS
  <2>1. CASE j \in 1..Len(c)
      BY <1>1, <1>2, <1>7, <2>1
  <2>2. CASE j = Len(c) + 1
      BY <1>1, <1>2, <1>7, <2>2 DEF x
  <2> QED
      BY <1>1, <2>1, <2>2
<1>9. d = [j \in 1..(Len(c) + 1) |-> d[j]] /\ e = [j \in 1..(Len(c) + 1) |-> e[j]]
  <2>1. d = [j \in 1..Len(b) |-> d[j]]
      BY DEF d, Seen
  <2>2. e = [j \in 1..Len(e) |-> e[j]] /\ Len(e) = Len(c) + 1
      BY <1>4, <1>6
  <2> QED
      BY <1>1, <2>1, <2>2
<1>10. d = e
    BY <1>8, <1>9
<1> QED
    BY <1>10 DEF d, e, b, g, x

LEMMA SeenPop ==
    ASSUME NEW c \in Seq(Frames), c # <<>>, NEW sb, NEW keys
    PROVE  Seen(sb, keys, SubSeq(c, 1, Len(c) - 1))
             = SubSeq(Seen(sb, keys, c), 1, Len(Seen(sb, keys, c)) - 1)
<1> DEFINE b == SubSeq(c, 1, Len(c) - 1)
           g == Seen(sb, keys, c)
           d == Seen(sb, keys, b)
           e == SubSeq(g, 1, Len(g) - 1)
<1>1. Len(c) \in Nat \ {0}
    OBVIOUS
<1>2. b \in Seq(Frames) /\ Len(b) = Len(c) - 1 /\ \A j \in 1..(Len(c) - 1) : b[j] = c[j]
    BY <1>1, PopFacts
<1> HIDE DEF b
<1>3. \A j \in 1..Len(b) : d[j] = CallWith(sb, keys, b[j])
    BY <1>2, SeenLen
<1>4. PICK S : g \in Seq(S)
    BY SeenLen
<1>5. Len(g) = Len(c) /\ g # <<>> /\ \A j \in 1..Len(c) : g[j] = CallWith(sb, keys, c[j])
    BY SeenLen
<1> HIDE DEF g, d
<1>6. e \in Seq(S) /\ Len(e) = Len(g) - 1 /\ \A j \in 1..(Len(g) - 1) : e[j] = g[j]
    BY <1>4, <1>5, PopFacts
<1> HIDE DEF e
<1>7. \A j \in 1..(Len(c) - 1) : d[j] = e[j]
  <2> SUFFICES ASSUME NEW j \in 1..(Len(c) - 1) PROVE d[j] = e[j]
      OBVIOUS
  <2>1. d[j] = CallWith(sb, keys, c[j])
      BY <1>2, <1>3
  <2>2. e[j] = CallWith(sb, keys, c[j])
      BY <1>1, <1>5, <1>6
  <2> QED
      BY <2>1, <2>2
<1>8. d = [j \in 1..(Len(c) - 1) |-> d[j]] /\ e = [j \in 1..(Len(c) - 1) |-> e[j]]
  <2>1. d = [j \in 1..Len(b) |-> d[j]]
      BY DEF d, Seen
  <2>2. e = [j \in 1..Len(e) |-> e[j]] /\ Len(e) = Len(c) - 1
      BY <1>5, <1>6
  <2> QED
      BY <1>2, <2>1, <2>2
<1>9. d = e
    BY <1>7, <1>8
<1> QED
    BY <1>9 DEF d, e, b, g

LEMMA SeenStep ==
    ASSUME NEW c \in Seq(Frames), c # <<>>, NEW f \in Frames, NEW sb, NEW keys
    PROVE  Seen(sb, keys, [c EXCEPT ![Len(c)] = f])
             = [Seen(sb, keys, c) EXCEPT ![Len(Seen(sb, keys, c))] = CallWith(sb, keys, f)]
<1> DEFINE b == [c EXCEPT ![Len(c)] = f]
<1>1. Len(c) \in Nat \ {0} /\ DOMAIN c = 1..Len(c)
    OBVIOUS
<1>2. Len(c) \in 1..Len(c)
    BY <1>1
<1>3. Len(b) = Len(c)
    BY <1>2, ExceptSeq
<1>4. b[Len(c)] = f /\ \A j \in 1..Len(c) : j # Len(c) => b[j] = c[j]
    BY <1>1, <1>2
<1>5. Len(Seen(sb, keys, c)) = Len(c)
    BY SeenLen
<1> HIDE DEF b
<1>6. Seen(sb, keys, b) = [Seen(sb, keys, c) EXCEPT ![Len(c)] = CallWith(sb, keys, f)]
    BY <1>2, <1>3, <1>4 DEF Seen
<1> QED
    BY <1>5, <1>6 DEF b

-----------------------------------------------------------------------------
(* The state of CallbackTable, before and after a step                     *)

LEMMA BoundFrame ==
    ASSUME UNCHANGED <<table, callback_unique_keys>> PROVE Bound' = Bound
BY DEF Bound

LEMMA CurrentFrame ==
    ASSUME UNCHANGED thread_data PROVE Current' = Current
BY DEF Current

(* A call is seen the same as long as nothing happens to it: the key of a  *)
(* slot that is being entered stays.                                       *)
LEMMA CallsSeenFrame ==
    ASSUME IInv, UNCHANGED <<stack, thread_data>>,
           \A t \in Threads : stack[t] # <<>> /\ Top(t).is \in {"entered", "looked_up"} =>
               callback_unique_keys'[thread_data[t].sandbox][Top(t).n]
                   = callback_unique_keys[thread_data[t].sandbox][Top(t).n]
    PROVE  CallsSeen' = CallsSeen
<1>1. ASSUME NEW t \in Threads, NEW j \in 1..Len(stack[t])
      PROVE  CallWith(thread_data[t].sandbox, callback_unique_keys', stack[t][j])
               = CallWith(thread_data[t].sandbox, callback_unique_keys, stack[t][j])
  <2>1. stack[t][j].is \in {"entered", "looked_up"} => stack[t] # <<>> /\ stack[t][j] = Top(t)
      BY CallFacts DEF IInv, Nested, Top
  <2>2. stack[t][j].is \in {"invoke", "running", "entered", "looked_up"}
      BY CallFacts DEF IInv, Frames
  <2>3. CASE stack[t][j].is \in {"invoke", "running"}
      BY <2>3 DEF CallWith
  <2>4. CASE stack[t][j].is \in {"entered", "looked_up"}
      BY <2>1, <2>4 DEF CallWith
  <2> QED
      BY <2>2, <2>3, <2>4
<1>2. ASSUME NEW t \in Threads
      PROVE  Seen(thread_data[t].sandbox, callback_unique_keys', stack[t])
               = Seen(thread_data[t].sandbox, callback_unique_keys, stack[t])
    BY <1>1 DEF Seen
<1> QED
    BY <1>2 DEF CallsSeen

(* What changes the calls of one thread alone.                             *)
LEMMA CallsSeenOfOne ==
    ASSUME CallsInv, NEW t \in Threads, NEW c, NEW td,
           stack' = [stack EXCEPT ![t] = c], thread_data' = [thread_data EXCEPT ![t] = td],
           UNCHANGED callback_unique_keys
    PROVE  /\ CallsSeen' = [CallsSeen EXCEPT ![t] = Seen(td.sandbox, callback_unique_keys, c)]
           /\ Current' = [Current EXCEPT ![t] = td.sandbox]
<1>1. /\ stack'[t] = c /\ thread_data'[t] = td
      /\ \A u \in Threads : u # t =>
            stack'[u] = stack[u] /\ thread_data'[u] = thread_data[u]
    BY DEF CallsInv, CallsTypeOK
<1>2. CallsSeen' = [u \in Threads |->
          Seen(thread_data'[u].sandbox, callback_unique_keys, stack'[u])]
    BY DEF CallsSeen
<1>3. CallsSeen' = [CallsSeen EXCEPT ![t] = Seen(td.sandbox, callback_unique_keys, c)]
  <2>1. [CallsSeen EXCEPT ![t] = Seen(td.sandbox, callback_unique_keys, c)]
            = [u \in Threads |-> IF u = t THEN Seen(td.sandbox, callback_unique_keys, c)
                    ELSE Seen(thread_data[u].sandbox, callback_unique_keys, stack[u])]
      BY DEF CallsSeen
  <2>2. \A u \in Threads : Seen(thread_data'[u].sandbox, callback_unique_keys, stack'[u])
            = IF u = t THEN Seen(td.sandbox, callback_unique_keys, c)
              ELSE Seen(thread_data[u].sandbox, callback_unique_keys, stack[u])
      BY <1>1
  <2> QED
      BY <1>2, <2>1, <2>2
<1>4. Current' = [Current EXCEPT ![t] = td.sandbox]
  <2>1. Current' = [u \in Threads |-> thread_data'[u].sandbox]
      BY DEF Current
  <2>2. \A u \in Threads : thread_data'[u].sandbox
            = IF u = t THEN td.sandbox ELSE thread_data[u].sandbox
      BY <1>1
  <2>3. [Current EXCEPT ![t] = td.sandbox]
            = [u \in Threads |-> IF u = t THEN td.sandbox ELSE thread_data[u].sandbox]
      BY DEF Current
  <2> QED
      BY <2>1, <2>2, <2>3
<1> QED
    BY <1>3, <1>4

LEMMA TopSeen ==
    ASSUME CallsInv, NEW t \in Threads
    PROVE  /\ CallsSeen[t] = Seen(thread_data[t].sandbox, callback_unique_keys, stack[t])
           /\ CallsSeen[t] = <<>> <=> stack[t] = <<>>
           /\ stack[t] # <<>> =>
                /\ Len(CallsSeen[t]) = Len(stack[t])
                /\ Promised!Top(t)
                     = CallWith(thread_data[t].sandbox, callback_unique_keys, Top(t))
<1>1. CallsSeen[t] = Seen(thread_data[t].sandbox, callback_unique_keys, stack[t])
    BY DEF CallsSeen
<1>2. CallsSeen[t] = <<>> <=> stack[t] = <<>>
    BY <1>1, CallFacts, SeenLen
<1>3. Len(CallsSeen[t]) = Len(stack[t])
    BY <1>1, CallFacts, SeenLen
<1>4. ASSUME stack[t] # <<>>
      PROVE  Promised!Top(t) = CallWith(thread_data[t].sandbox, callback_unique_keys, Top(t))
  <2>1. Len(stack[t]) \in 1..Len(stack[t])
      BY <1>4, CallFacts
  <2>2. CallsSeen[t][Len(stack[t])]
          = CallWith(thread_data[t].sandbox, callback_unique_keys, stack[t][Len(stack[t])])
      BY <1>1, <2>1, CallFacts, SeenLen
  <2> QED
      BY <1>3, <2>2 DEF Promised!Top, Top
<1> QED
    BY <1>1, <1>2, <1>3, <1>4

LEMMA InProgramSeen ==
    ASSUME CallsInv, NEW t \in Threads, InProgram(t)
    PROVE  /\ Promised!InProgram(t)
           /\ \A j \in 1..Len(stack[t]) : stack[t][j].is \in {"invoke", "running"}
<1>1. ASSUME stack[t] # <<>> PROVE Promised!Top(t).is = "running"
  <2>1. Top(t).is = "running" /\ Top(t).func = Top(t).key
      BY <1>1, CallFacts DEF InProgram, Nested, Top
  <2> QED
      BY <1>1, <2>1, TopSeen DEF CallWith
<1>2. \A j \in 1..Len(stack[t]) : stack[t][j].is \in {"invoke", "running"}
  <2> SUFFICES ASSUME NEW j \in 1..Len(stack[t]), stack[t][j].is \notin {"invoke", "running"}
               PROVE  FALSE
      OBVIOUS
  <2>1. stack[t][j].is \in {"entered", "looked_up"}
      BY CallFacts DEF Frames
  <2>2. j = Len(stack[t]) /\ stack[t] # <<>>
      BY <2>1, CallFacts DEF Nested
  <2> QED
      BY <2>1, <2>2 DEF InProgram, Top
<1> QED
    BY <1>1, <1>2, TopSeen DEF Promised!InProgram

LEMMA InSandboxSeen ==
    ASSUME CallsInv, NEW t \in Threads, InSandbox(t)
    PROVE  /\ CallsSeen[t] # <<>> /\ Promised!Top(t) = [is |-> "invoke", of |-> Top(t).of]
           /\ thread_data[t].sandbox = Top(t).of
           /\ \A j \in 1..Len(stack[t]) : stack[t][j].is \in {"invoke", "running"}
<1>1. stack[t] # <<>> /\ Top(t).is = "invoke"
    BY DEF InSandbox
<1>2. Promised!Top(t) = [is |-> "invoke", of |-> Top(t).of]
    BY <1>1, TopSeen DEF CallWith
<1>3. thread_data[t].sandbox = Top(t).of
    BY <1>1, CallFacts DEF SandboxAt, Top
<1>4. \A j \in 1..Len(stack[t]) : stack[t][j].is \in {"invoke", "running"}
  <2> SUFFICES ASSUME NEW j \in 1..Len(stack[t]), stack[t][j].is \notin {"invoke", "running"}
               PROVE  FALSE
      OBVIOUS
  <2>1. stack[t][j].is \in {"entered", "looked_up"}
      BY CallFacts DEF Frames
  <2>2. j = Len(stack[t])
      BY <2>1, CallFacts DEF Nested
  <2> QED
      BY <1>1, <2>1, <2>2 DEF Top
<1> QED
    BY <1>1, <1>2, <1>3, <1>4, TopSeen

(* The sandbox that a thread is in is that of its innermost invocation.    *)
LEMMA InnermostSeen ==
    ASSUME NEW c \in Seq(Frames), Nested(c), NEW sb, NEW keys
    PROVE  Promised!Innermost(Seen(sb, keys, c)) = SandboxAt(c, Len(c))
<1> DEFINE d == Seen(sb, keys, c)
           I == {j \in 1..Len(d) : d[j].is = "invoke"}
           Last(j) == \A k \in I : k <= j
<1>1. Len(c) \in Nat /\ Len(d) = Len(c) /\ \A j \in 1..Len(c) : d[j] = CallWith(sb, keys, c[j])
    BY SeenLen
<1> HIDE DEF d
<1>2. \A j \in 1..Len(c) :
        /\ d[j].is = "invoke" <=> c[j].is = "invoke"
        /\ d[j].is = "invoke" => d[j].of = c[j].of
  <2> SUFFICES ASSUME NEW j \in 1..Len(c)
               PROVE  /\ d[j].is = "invoke" <=> c[j].is = "invoke"
                      /\ d[j].is = "invoke" => d[j].of = c[j].of
      OBVIOUS
  <2>1. d[j] = CallWith(sb, keys, c[j])
      BY <1>1
  <2> QED
      BY <2>1 DEF CallWith
<1>3. Promised!Innermost(d) = IF I = {} THEN None ELSE d[CHOOSE j \in I : Last(j)].of
    BY DEF Promised!Innermost
<1>4. ASSUME NEW m \in I, Last(m) PROVE Promised!Innermost(d) = d[m].of
  <2>1. \A j \in I : Last(j) => j = m
      BY <1>1, <1>4
  <2> HIDE DEF I, Last
  <2>2. (CHOOSE j \in I : Last(j)) = m
      BY <1>4, <2>1
  <2> QED
      BY <1>3, <1>4, <2>2
<1>5. CASE Len(c) = 0
  <2>1. I = {}
      BY <1>1, <1>5
  <2> HIDE DEF I
  <2> QED
      BY <1>3, <1>5, <2>1 DEF SandboxAt, d
<1>6. CASE Len(c) > 0 /\ c[Len(c)].is = "invoke"
  <2>0. Len(c) \in 1..Len(c)
      BY <1>1, <1>6
  <2>1. Len(c) \in I /\ Last(Len(c)) /\ d[Len(c)].of = c[Len(c)].of
      BY <1>1, <1>2, <1>6, <2>0
  <2>2. Promised!Innermost(d) = d[Len(c)].of
      BY <1>4, <2>1
  <2> QED
      BY <1>6, <2>1, <2>2 DEF SandboxAt, d
<1>7. CASE Len(c) > 0 /\ c[Len(c)].is # "invoke"
  <2>1. Len(c) \in 1..Len(c)
      BY <1>1, <1>7
  <2>2. Len(c) - 1 \in 1..Len(c) /\ c[Len(c) - 1].is = "invoke"
      BY <1>1, <1>7, <2>1 DEF Nested
  <2>a. Len(c) - 1 \in I /\ d[Len(c) - 1].of = c[Len(c) - 1].of
      BY <1>1, <1>2, <2>2
  <2>b. Len(c) \notin I
      BY <1>2, <1>7, <2>1
  <2>c. Last(Len(c) - 1)
      BY <1>1, <1>7, <2>b
  <2>3. Len(c) - 1 \in I /\ Last(Len(c) - 1) /\ d[Len(c) - 1].of = c[Len(c) - 1].of
      BY <2>a, <2>c
  <2>4. Promised!Innermost(d) = d[Len(c) - 1].of
      BY <1>4, <2>3
  <2> QED
      BY <1>1, <1>7, <2>3, <2>4 DEF SandboxAt, d
<1> QED
    BY <1>1, <1>5, <1>6, <1>7

-----------------------------------------------------------------------------
(* Steps that CallbackTable does not see                                   *)

LEMMA QuietStep ==
    ASSUME IInv, UNCHANGED <<stack, thread_data, callback_unique_keys>>,
           Bound' = Bound
    PROVE  UNCHANGED Promised!vars
<1>1. CallsSeen' = CallsSeen
    BY CallsSeenFrame
<1> QED
    BY <1>1, CurrentFrame DEF Promised!vars

(* The table of a new instance is empty, and nothing was left in the slots.*)
LEMMA CreateQuiet ==
    ASSUME IInv, NEW t \in Threads, NEW s \in Sandboxes, Create(t, s)
    PROVE  UNCHANGED Promised!vars
<1>1. ASSUME NEW r \in Sandboxes, NEW i \in Indices
      PROVE  (IF table'[r][i] \in Slots THEN callback_unique_keys[r][table'[r][i]] ELSE None)
               = (IF table[r][i] \in Slots THEN callback_unique_keys[r][table[r][i]] ELSE None)
  <2>1. CASE r # s
      BY <2>1 DEF Create, IInv, TablesInv, TablesTypeOK
  <2>2. CASE r = s
    <3>1. table'[s][i] = None /\ ~sandbox[s]
        BY DEF Create, IInv, TablesInv, TablesTypeOK
    <3> QED
        BY <2>2, <3>1 DEF IInv, TablesInv, DeadTables, Slots
  <2> QED
      BY <2>1, <2>2
<1>2. Bound' = Bound
    BY <1>1 DEF Bound, Create
<1> QED
    BY <1>2, QuietStep DEF Create

LEMMA DestroyQuiet ==
    ASSUME IInv, NEW t \in Threads, NEW s \in Sandboxes,
           Destroy(t, s) \/ CreateFails(t, s)
           \/ (\E k \in Keys : RegisterFull(t, s, k))
    PROVE  UNCHANGED Promised!vars
<1>1. UNCHANGED <<tables, stack, thread_data>>
    BY DEF Destroy, CreateFails, RegisterFull
<1>2. UNCHANGED <<table, callback_unique_keys>>
    BY <1>1 DEF tables
<1> QED
    BY <1>1, <1>2, BoundFrame, QuietStep

(* The pointer of a function of the library is no callback.                *)
LEMMA PointerQuiet ==
    ASSUME IInv, NEW t \in Threads, NEW s \in Sandboxes, NEW f \in Internals,
           GetSandboxedPointer(t, s, f)
    PROVE  UNCHANGED Promised!vars
<1> PICK i \in FreeIndices(s) : table' = [table EXCEPT ![s][i] = f]
    BY DEF GetSandboxedPointer
<1>1. i \in Indices /\ table[s][i] = None /\ None \notin Slots /\ f \notin Slots
    BY DEF FreeIndices, Slots
<1>2. ASSUME NEW r \in Sandboxes, NEW j \in Indices
      PROVE  (IF table'[r][j] \in Slots THEN callback_unique_keys[r][table'[r][j]] ELSE None)
               = (IF table[r][j] \in Slots THEN callback_unique_keys[r][table[r][j]] ELSE None)
  <2>1. CASE r = s /\ j = i
      BY <1>1, <2>1 DEF IInv, TablesInv, TablesTypeOK
  <2>2. CASE ~(r = s /\ j = i)
      BY <2>2 DEF IInv, TablesInv, TablesTypeOK
  <2> QED
      BY <2>1, <2>2
<1>3. Bound' = Bound
    BY <1>2 DEF Bound, GetSandboxedPointer
<1> QED
    BY <1>3, QuietStep DEF GetSandboxedPointer

(* Between the interceptor and the key, looking up the callback shows      *)
(* nothing new.                                                            *)
LEMMA LookUpQuiet ==
    ASSUME IInv, NEW t \in Threads, LookUpCallback(t)
    PROVE  UNCHANGED Promised!vars
<1> DEFINE f == [Top(t) EXCEPT !.is = "looked_up",
                               !.func = callbacks[thread_data[t].sandbox][Top(t).n]]
           c == [stack[t] EXCEPT ![Len(stack[t])] = f]
           sb == thread_data[t].sandbox
<1>0. CallsInv /\ TablesInv
    BY DEF IInv
<1>1. stack[t] # <<>> /\ Top(t).is = "entered" /\ Replace(t, f)
      /\ UNCHANGED <<tables, thread_data>>
    BY DEF LookUpCallback
<1>2. /\ Top(t) \in Frames /\ Top(t).n \in Slots /\ sb \in Sandboxes
    BY <1>0, <1>1, CallFacts, CallerOfCallback DEF Frames
<1>3. f \in Frames /\ f.is = "looked_up" /\ f.n = Top(t).n
  <2>1. callbacks[sb][Top(t).n] \in Keys \cup {None}
      BY <1>0, <1>2 DEF TablesInv, TablesTypeOK
  <2> QED
      BY <1>1, <1>2, <2>1 DEF Frames
<1>4. UNCHANGED <<table, callback_unique_keys>>
    BY <1>1 DEF tables
<1>5. stack[t] \in Seq(Frames)
    BY <1>0, CallFacts
<1>6. stack' = [stack EXCEPT ![t] = c] /\ thread_data' = [thread_data EXCEPT ![t] = thread_data[t]]
    BY <1>0, <1>1 DEF Replace, CallsInv, CallsTypeOK
<1> HIDE DEF f
<1>7. Seen(sb, callback_unique_keys, c)
        = [CallsSeen[t] EXCEPT ![Len(CallsSeen[t])] = CallWith(sb, callback_unique_keys, f)]
    BY <1>0, <1>1, <1>3, <1>5, SeenStep, TopSeen, SMTT(60)
<1>8. CallWith(sb, callback_unique_keys, f) = CallsSeen[t][Len(CallsSeen[t])]
  <2>1. CallWith(sb, callback_unique_keys, f) = CallWith(sb, callback_unique_keys, Top(t))
      BY <1>1, <1>3 DEF CallWith
  <2> QED
      BY <1>0, <1>1, <2>1, TopSeen DEF Promised!Top
<1>9. Seen(sb, callback_unique_keys, c) = CallsSeen[t]
  <2>1. PICK S : CallsSeen[t] \in Seq(S)
      BY <1>0, <1>5, TopSeen, SeenLen
  <2> HIDE DEF c, sb
  <2> QED
      BY <1>7, <1>8, <2>1
<1>10. CallsSeen' = [CallsSeen EXCEPT ![t] = Seen(sb, callback_unique_keys, c)]
    BY <1>0, <1>4, <1>6, CallsSeenOfOne
<1>11. CallsSeen' = CallsSeen
    BY <1>9, <1>10 DEF CallsSeen
<1> QED
    BY <1>1, <1>4, <1>11, BoundFrame, CurrentFrame DEF Promised!vars

-----------------------------------------------------------------------------
(* Steps that are steps of CallbackTable                                   *)

LEMMA RegisterRebinds ==
    ASSUME IInv, NEW t \in Threads, NEW s \in Sandboxes, NEW k \in Keys, Register(t, s, k)
    PROVE  /\ UNCHANGED <<CallsSeen, Current>>
           /\ \E i \in Indices : Promised!Rebind(s, i, k)
<1> PICK n \in FreeSlots(s), i \in FreeIndices(s) :
        /\ table' = [table EXCEPT ![s][i] = n]
        /\ callback_unique_keys' = [callback_unique_keys EXCEPT ![s][n] = k]
    BY DEF Register
<1>0. TablesTypeOK /\ SlotsAgree /\ sandbox[s] /\ UNCHANGED <<stack, thread_data>>
    BY DEF IInv, TablesInv, Register
<1>1. n \in Slots /\ callbacks[s][n] = None /\ i \in Indices /\ table[s][i] = None
      /\ None \notin Slots /\ k # None
    BY DEF FreeSlots, FreeIndices, Slots
<1>2. callback_unique_keys[s][n] = None /\ callback_slot_assignment[s][n] = None
    BY <1>0, <1>1 DEF SlotsAgree, SlotAgrees
<1>3. \A j \in Indices : table[s][j] # n
    BY <1>0, <1>1, <1>2 DEF SlotsAgree, IndexAgrees
<1>4. Bound' = [Bound EXCEPT ![s][i] = k]
  <2>1. ASSUME NEW r \in Sandboxes, NEW j \in Indices
        PROVE  (IF table'[r][j] \in Slots THEN callback_unique_keys'[r][table'[r][j]] ELSE None)
                 = IF r = s /\ j = i THEN k
                   ELSE IF table[r][j] \in Slots THEN callback_unique_keys[r][table[r][j]] ELSE None
    <3>1. CASE r = s /\ j = i
        BY <1>0, <1>1, <3>1 DEF TablesTypeOK
    <3>2. CASE r = s /\ j # i
      <4>1. table'[r][j] = table[r][j] /\ table[r][j] # n
          BY <1>0, <1>3, <3>2 DEF TablesTypeOK
      <4> QED
          BY <1>0, <3>2, <4>1 DEF TablesTypeOK
    <3>3. CASE r # s
        BY <1>0, <3>3 DEF TablesTypeOK
    <3> QED
        BY <3>1, <3>2, <3>3
  <2>2. Bound' = [r \in Sandboxes |-> [j \in Indices |->
                     IF r = s /\ j = i THEN k
                     ELSE IF table[r][j] \in Slots THEN callback_unique_keys[r][table[r][j]] ELSE None]]
      BY <2>1 DEF Bound
  <2>3. [Bound EXCEPT ![s][i] = k] = [r \in Sandboxes |->
            IF r = s THEN [Bound[s] EXCEPT ![i] = k] ELSE Bound[r]]
      BY DEF Bound
  <2>4. [Bound[s] EXCEPT ![i] = k] = [j \in Indices |-> IF j = i THEN k ELSE Bound[s][j]]
      BY DEF Bound
  <2>5. ASSUME NEW r \in Sandboxes
        PROVE  (IF r = s THEN [j \in Indices |-> IF j = i THEN k ELSE Bound[s][j]] ELSE Bound[r])
                 = [j \in Indices |->
                     IF r = s /\ j = i THEN k
                     ELSE IF table[r][j] \in Slots THEN callback_unique_keys[r][table[r][j]] ELSE None]
    <3>1. Bound[r] = [j \in Indices |->
              IF table[r][j] \in Slots THEN callback_unique_keys[r][table[r][j]] ELSE None]
        BY DEF Bound
    <3>2. CASE r = s
        BY <3>1, <3>2
    <3>3. CASE r # s
        BY <3>1, <3>3
    <3> QED
        BY <3>2, <3>3
  <2>6. [Bound EXCEPT ![s][i] = k] = [r \in Sandboxes |->
            IF r = s THEN [j \in Indices |-> IF j = i THEN k ELSE Bound[s][j]] ELSE Bound[r]]
      BY <2>3, <2>4
  <2> QED
      BY <2>2, <2>5, <2>6
<1>5. Bound[s][i] = None
    BY <1>1 DEF Bound
<1>6. CallsSeen' = CallsSeen
  <2>1. ASSUME NEW u \in Threads, stack[u] # <<>>, Top(u).is \in {"entered", "looked_up"}
        PROVE  callback_unique_keys'[thread_data[u].sandbox][Top(u).n]
                 = callback_unique_keys[thread_data[u].sandbox][Top(u).n]
    <3>1. callback_unique_keys[thread_data[u].sandbox][Top(u).n] # None
        BY <2>1 DEF IInv, EnteringInv
    <3>2. ~(thread_data[u].sandbox = s /\ Top(u).n = n)
        BY <1>2, <3>1
    <3> QED
        BY <1>0, <3>2 DEF TablesTypeOK
  <2> QED
      BY <1>0, <2>1, CallsSeenFrame
<1> QED
    BY <1>0, <1>1, <1>4, <1>5, <1>6, CurrentFrame DEF Promised!Rebind

LEMMA UnregisterRebinds ==
    ASSUME IInv, NEW t \in Threads, NEW s \in Sandboxes, NEW k \in Keys, Unregister(t, s, k)
    PROVE  /\ UNCHANGED <<CallsSeen, Current>>
           /\ \E i \in Indices : Promised!Rebind(s, i, None)
<1> PICK n \in Slots :
        /\ callback_unique_keys[s][n] = k
        /\ ~Entering(s, n)
        /\ table' = [table EXCEPT ![s][callback_slot_assignment[s][n]] = None]
        /\ callback_unique_keys' = [callback_unique_keys EXCEPT ![s][n] = None]
    BY DEF Unregister
<1> DEFINE i == callback_slot_assignment[s][n]
<1>0. TablesTypeOK /\ SlotsAgree /\ CallsInv /\ sandbox[s] /\ UNCHANGED <<stack, thread_data>>
    BY DEF IInv, TablesInv, Unregister
<1>1. k # None /\ None \notin Slots
    BY DEF Slots
<1>2. i \in Indices /\ table[s][i] = n
    BY <1>0, <1>1 DEF SlotsAgree, SlotAgrees, TablesTypeOK
<1>3. \A j \in Indices : table[s][j] = n => j = i
    BY <1>0 DEF SlotsAgree, IndexAgrees
<1> HIDE DEF i
<1>a. table' = [table EXCEPT ![s][i] = None]
    BY DEF i
<1>4. Bound' = [Bound EXCEPT ![s][i] = None]
  <2>1. ASSUME NEW r \in Sandboxes, NEW j \in Indices
        PROVE  (IF table'[r][j] \in Slots THEN callback_unique_keys'[r][table'[r][j]] ELSE None)
                 = IF r = s /\ j = i THEN None
                   ELSE IF table[r][j] \in Slots THEN callback_unique_keys[r][table[r][j]] ELSE None
    <3>1. CASE r = s /\ j = i
        BY <1>0, <1>1, <1>a, <3>1 DEF TablesTypeOK
    <3>2. CASE r = s /\ j # i
      <4>1. table'[r][j] = table[r][j] /\ table[r][j] # n
          BY <1>0, <1>3, <1>a, <3>2 DEF TablesTypeOK
      <4> QED
          BY <1>0, <3>2, <4>1 DEF TablesTypeOK
    <3>3. CASE r # s
        BY <1>0, <1>a, <3>3 DEF TablesTypeOK
    <3> QED
        BY <3>1, <3>2, <3>3
  <2> QED
      BY <2>1, ZenonT(60) DEF Bound
<1>5. Bound[s][i] # None
    BY <1>1, <1>2 DEF Bound
<1>6. CallsSeen' = CallsSeen
  <2>1. ASSUME NEW u \in Threads, stack[u] # <<>>, Top(u).is \in {"entered", "looked_up"}
        PROVE  callback_unique_keys'[thread_data[u].sandbox][Top(u).n]
                 = callback_unique_keys[thread_data[u].sandbox][Top(u).n]
    <3>1. thread_data[u].sandbox = stack[u][Len(stack[u]) - 1].of
        BY <1>0, <2>1, CallerOfCallback
    <3>2. ~(thread_data[u].sandbox = s /\ Top(u).n = n)
        BY <2>1, <3>1 DEF Entering
    <3> QED
        BY <1>0, <3>2 DEF TablesTypeOK
  <2> QED
      BY <1>0, <2>1, CallsSeenFrame
<1> QED
    BY <1>0, <1>1, <1>2, <1>4, <1>5, <1>6, CurrentFrame DEF Promised!Rebind

LEMMA InvokeInvokes ==
    ASSUME IInv, NEW t \in Threads, NEW s \in Sandboxes,
           InvokeWithFuncPtr(t, s) \/ (\E size \in Sizes : InvokeReturningClass(t, s, size))
    PROVE  Bound' = Bound /\ Promised!Invoke(t, s)
<1> DEFINE f == Invocation(s, thread_data[t].sandbox)
           c == Append(stack[t], f)
           td == [thread_data[t] EXCEPT !.sandbox = s]
<1>0. CallsInv
    BY DEF IInv
<1>a. /\ InProgram(t) /\ UNCHANGED tables
      /\ stack' = [stack EXCEPT ![t] = Append(@, f)]
      /\ thread_data' = [thread_data EXCEPT ![t].sandbox = s]
    BY DEF InvokeWithFuncPtr, InvokeReturningClass
<1>1. UNCHANGED <<table, callback_unique_keys>>
    BY <1>a DEF tables
<1>2. stack[t] \in Seq(Frames) /\ f \in Frames /\ td.sandbox = s
    BY <1>0, CallFacts DEF Frames, Invocation
<1>3. stack' = [stack EXCEPT ![t] = c] /\ thread_data' = [thread_data EXCEPT ![t] = td]
    BY <1>0, <1>a DEF CallsInv, CallsTypeOK
<1>4. f.is = "invoke" /\ f.of = s
    BY DEF Invocation
<1> HIDE DEF f
<1>5. Seen(s, callback_unique_keys, c)
        = Append(CallsSeen[t], CallWith(s, callback_unique_keys, f))
  <2>1. \A j \in 1..Len(stack[t]) : stack[t][j].is \in {"invoke", "running"}
      BY <1>0, <1>a, InProgramSeen
  <2> DEFINE d == stack[t]
             sb == thread_data[t].sandbox
             keys == callback_unique_keys
  <2>2. c = Append(d, f)
      OBVIOUS
  <2>3. d \in Seq(Frames) /\ f \in Frames /\ \A j \in 1..Len(d) : d[j].is \in {"invoke", "running"}
      BY <1>2, <2>1
  <2> HIDE DEF c, td, d, sb, keys
  <2>4. Seen(s, keys, c) = Append(Seen(sb, keys, d), CallWith(s, keys, f))
    <3>1. Seen(s, keys, d) = Seen(sb, keys, d)
        BY <2>3, SeenAnywhere
    <3>2. Seen(s, keys, c) = Append(Seen(s, keys, d), CallWith(s, keys, f))
        BY <2>2, <2>3, SeenPush
    <3> QED
        BY <3>1, <3>2
  <2> QED
      BY <1>0, <2>2, <2>4, TopSeen DEF d, sb, keys
<1>6. CallWith(s, callback_unique_keys, f) = [is |-> "invoke", of |-> s]
    BY <1>4 DEF CallWith
<1> HIDE DEF c, td
<1>7. /\ CallsSeen' = [CallsSeen EXCEPT ![t] = Seen(td.sandbox, callback_unique_keys, c)]
      /\ Current' = [Current EXCEPT ![t] = td.sandbox]
    BY <1>0, <1>1, <1>3, CallsSeenOfOne
<1> QED
    BY <1>0, <1>1, <1>2, <1>a, <1>5, <1>6, <1>7, BoundFrame, InProgramSeen
       DEF Promised!Invoke, Promised!Push

LEMMA InvocationReturnsReturns ==
    ASSUME IInv, NEW t \in Threads, InvocationReturns(t)
    PROVE  Bound' = Bound /\ Promised!Return(t)
<1> DEFINE c == SubSeq(stack[t], 1, Len(stack[t]) - 1)
           td == [thread_data[t] EXCEPT !.sandbox = Top(t).saved]
<1>0. CallsInv
    BY DEF IInv
<1>1. InSandbox(t) /\ stack[t] # <<>> /\ Top(t).is = "invoke"
    BY DEF InvocationReturns, InSandbox
<1>2. UNCHANGED <<table, callback_unique_keys>>
    BY DEF InvocationReturns, tables
<1>3. stack' = [stack EXCEPT ![t] = c] /\ thread_data' = [thread_data EXCEPT ![t] = td]
    BY <1>0 DEF InvocationReturns, Pop, CallsInv, CallsTypeOK
<1>4. stack[t] \in Seq(Frames) /\ Nested(stack[t]) /\ Len(stack[t]) \in Nat \ {0}
    BY <1>0, <1>1, CallFacts
<1>5. td.sandbox = Top(t).saved
    BY <1>0, CallFacts
<1>6. /\ c \in Seq(Frames) /\ Len(c) = Len(stack[t]) - 1 /\ Nested(c)
      /\ SandboxAt(c, Len(c)) = SandboxAt(stack[t], Len(stack[t]) - 1)
  <2>1. c \in Seq(Frames) /\ Len(c) = Len(stack[t]) - 1
      BY <1>1, <1>4, PopFacts
  <2>2. Len(stack[t]) - 1 \in 0..(Len(stack[t]) - 1)
      BY <1>4
  <2>3. Nested(c) /\ SandboxAt(c, Len(stack[t]) - 1) = SandboxAt(stack[t], Len(stack[t]) - 1)
      BY <1>1, <1>4, <2>2, NestedPop
  <2> QED
      BY <2>1, <2>3
<1>7. Top(t).saved = SandboxAt(stack[t], Len(stack[t]) - 1)
  <2>1. Len(stack[t]) \in 1..Len(stack[t])
      BY <1>4
  <2> QED
      BY <1>1, <1>4, <2>1 DEF Nested, Top
<1>8. Seen(td.sandbox, callback_unique_keys, c)
        = SubSeq(CallsSeen[t], 1, Len(CallsSeen[t]) - 1)
  <2> DEFINE d == stack[t]
             sb == thread_data[t].sandbox
             sb1 == td.sandbox
             keys == callback_unique_keys
  <2>1. \A j \in 1..Len(c) : c[j].is \in {"invoke", "running"}
    <3>1. \A j \in 1..(Len(d) - 1) : c[j] = d[j]
        BY <1>1, <1>4, PopFacts
    <3>2. \A j \in 1..Len(d) : d[j].is \in {"invoke", "running"}
        BY <1>0, <1>1, InSandboxSeen
    <3> HIDE DEF c, d
    <3> QED
        BY <1>4, <1>6, <3>1, <3>2, SMTT(60) DEF d
  <2>2. c = SubSeq(d, 1, Len(d) - 1) /\ d \in Seq(Frames) /\ d # <<>> /\ c \in Seq(Frames)
      BY <1>1, <1>4, <1>6
  <2> HIDE DEF c, d, sb, sb1, keys, td
  <2>3. Seen(sb1, keys, c) = Seen(sb, keys, c)
      BY <2>1, <2>2, SeenAnywhere
  <2>4. Seen(sb, keys, SubSeq(d, 1, Len(d) - 1))
          = SubSeq(Seen(sb, keys, d), 1, Len(Seen(sb, keys, d)) - 1)
      BY <2>2, SeenPop
  <2>5. CallsSeen[t] = Seen(sb, keys, d)
      BY <1>0, TopSeen DEF sb, keys, d
  <2>6. Seen(sb1, keys, c) = SubSeq(CallsSeen[t], 1, Len(CallsSeen[t]) - 1)
      BY <2>2, <2>3, <2>4, <2>5
  <2> QED
      BY <2>6 DEF sb1, keys
<1> HIDE DEF c, td
<1>9. Promised!Innermost(Seen(td.sandbox, callback_unique_keys, c)) = td.sandbox
    BY <1>5, <1>6, <1>7, InnermostSeen
<1>10. /\ CallsSeen' = [CallsSeen EXCEPT ![t] = Seen(td.sandbox, callback_unique_keys, c)]
       /\ Current' = [Current EXCEPT ![t] = td.sandbox]
    BY <1>0, <1>2, <1>3, CallsSeenOfOne
<1>11. CallsSeen'[t] = Seen(td.sandbox, callback_unique_keys, c)
    BY <1>10 DEF CallsSeen
<1>12. CallsSeen[t] # <<>> /\ Promised!Top(t).is = "invoke"
    BY <1>0, <1>1, InSandboxSeen
<1>13. Promised!Pop(t)
    BY <1>8, <1>10 DEF Promised!Pop
<1>14. Current' = [Current EXCEPT ![t] = Promised!Innermost(CallsSeen'[t])]
    BY <1>9, <1>10, <1>11
<1> QED
    BY <1>2, <1>12, <1>13, <1>14, BoundFrame DEF Promised!Return

LEMMA InterceptorCallsBound ==
    ASSUME IInv, NEW t \in Threads, NEW i \in Indices, CallbackInterceptor(t, i)
    PROVE  Bound' = Bound /\ Promised!Call(t, i)
<1> DEFINE n == table[Top(t).of][i]
           f == CallbackOf(n)
           c == Append(stack[t], f)
           td == [thread_data[t] EXCEPT !.last_callback_invoked = n]
           sb == thread_data[t].sandbox
<1>0. CallsInv /\ TablesInv /\ AliveInv
    BY DEF IInv
<1>1. InSandbox(t) /\ stack[t] # <<>> /\ Top(t).is = "invoke" /\ n \in Slots
    BY DEF CallbackInterceptor, InSandbox
<1>2. UNCHANGED <<table, callback_unique_keys>>
    BY DEF CallbackInterceptor, tables
<1>3. stack' = [stack EXCEPT ![t] = c] /\ thread_data' = [thread_data EXCEPT ![t] = td]
    BY <1>0 DEF CallbackInterceptor, CallsInv, CallsTypeOK
<1>4. td.sandbox = sb /\ sb = Top(t).of
    BY <1>0, <1>1, CallFacts, InSandboxSeen
<1>5. Top(t).of \in Sandboxes /\ sandbox[Top(t).of]
  <2>1. Len(stack[t]) \in 1..Len(stack[t]) /\ Top(t) \in Frames
      BY <1>0, <1>1, CallFacts
  <2>2. Top(t).of \in Sandboxes
      BY <1>1, <2>1 DEF Frames
  <2>3. InUse(Top(t).of)
      BY <1>1, <2>1 DEF InUse, Top
  <2> QED
      BY <1>0, <2>2, <2>3 DEF AliveInv
<1>6. callback_unique_keys[Top(t).of][n] \in Keys
    BY <1>0, <1>1, <1>5, SlotHasKey
<1>7. /\ Bound[Top(t).of][i] = callback_unique_keys[Top(t).of][n]
      /\ Bound[Top(t).of][i] # None
    BY <1>1, <1>5, <1>6 DEF Bound
<1>8. stack[t] \in Seq(Frames) /\ f \in Frames
    BY <1>0, <1>1, CallFacts DEF Frames, CallbackOf
<1>9. CallWith(sb, callback_unique_keys, f) = [is |-> "entered", of |-> Bound[Top(t).of][i]]
    BY <1>4, <1>7 DEF CallWith, CallbackOf
<1> HIDE DEF f
<1>10. Seen(sb, callback_unique_keys, c)
         = Append(CallsSeen[t], CallWith(sb, callback_unique_keys, f))
    BY <1>0, <1>1, <1>8, TopSeen, SeenPush
<1> HIDE DEF c, td, n, sb
<1>11. /\ CallsSeen' = [CallsSeen EXCEPT ![t] = Seen(sb, callback_unique_keys, c)]
       /\ Current' = [Current EXCEPT ![t] = sb]
    BY <1>0, <1>2, <1>3, <1>4, CallsSeenOfOne
<1>12. Current' = Current
    BY <1>11 DEF Current, sb
<1>13. CallsSeen[t] # <<>> /\ Promised!Top(t).is = "invoke" /\ Promised!Top(t).of = Top(t).of
    BY <1>0, <1>1, InSandboxSeen
<1> QED
    BY <1>2, <1>7, <1>9, <1>10, <1>11, <1>12, <1>13, BoundFrame DEF Promised!Call, Promised!Push

LEMMA KeyReadRuns ==
    ASSUME IInv, NEW t \in Threads, GetExecutedCallbackSandboxAndKey(t)
    PROVE  Bound' = Bound /\ Promised!Run(t)
<1> DEFINE key == callback_unique_keys[thread_data[t].sandbox][thread_data[t].last_callback_invoked]
           f == [Top(t) EXCEPT !.is = "running", !.key = key]
           c == [stack[t] EXCEPT ![Len(stack[t])] = f]
           sb == thread_data[t].sandbox
<1>0. CallsInv /\ TablesInv /\ EnteringInv
    BY DEF IInv
<1>1. stack[t] # <<>> /\ Top(t).is = "looked_up" /\ Replace(t, f)
      /\ UNCHANGED <<tables, thread_data>>
    BY DEF GetExecutedCallbackSandboxAndKey
<1>2. /\ Top(t) \in Frames /\ Top(t).n \in Slots /\ sb \in Sandboxes
    BY <1>0, <1>1, CallFacts, CallerOfCallback DEF Frames
<1>3. key = callback_unique_keys[sb][Top(t).n] /\ Top(t).func = key
    BY <1>0, <1>1 DEF EnteringInv
<1>4. key \in Keys \cup {None}
    BY <1>0, <1>2, <1>3 DEF TablesInv, TablesTypeOK
<1>5. f \in Frames /\ f.is = "running" /\ f.key = key /\ f.func = key
    BY <1>1, <1>2, <1>3, <1>4 DEF Frames
<1>6. UNCHANGED <<table, callback_unique_keys>>
    BY <1>1 DEF tables
<1>7. stack[t] \in Seq(Frames)
    BY <1>0, CallFacts
<1>8. stack' = [stack EXCEPT ![t] = c] /\ thread_data' = [thread_data EXCEPT ![t] = thread_data[t]]
    BY <1>0, <1>1 DEF Replace, CallsInv, CallsTypeOK
<1> HIDE DEF f, key
<1>9. Seen(sb, callback_unique_keys, c)
        = [CallsSeen[t] EXCEPT ![Len(CallsSeen[t])] = CallWith(sb, callback_unique_keys, f)]
    BY <1>0, <1>1, <1>5, <1>7, SeenStep, TopSeen, SMTT(60)
<1>10. CallWith(sb, callback_unique_keys, f) = [is |-> "running", of |-> key]
    BY <1>5 DEF CallWith
<1>11. Promised!Top(t) = [is |-> "entered", of |-> key]
    BY <1>0, <1>1, <1>3, TopSeen DEF CallWith
<1>12. Seen(sb, callback_unique_keys, c) = [CallsSeen[t] EXCEPT ![Len(CallsSeen[t])].is = "running"]
    BY <1>9, <1>10, <1>11 DEF Promised!Top
<1> HIDE DEF c
<1>13. CallsSeen' = [CallsSeen EXCEPT ![t] = Seen(sb, callback_unique_keys, c)]
    BY <1>0, <1>6, <1>8, CallsSeenOfOne
<1>14. CallsSeen' = [CallsSeen EXCEPT ![t][Len(CallsSeen[t])].is = "running"]
    BY <1>12, <1>13
<1>15. CallsSeen[t] # <<>>
    BY <1>0, <1>1, TopSeen
<1> QED
    BY <1>1, <1>6, <1>11, <1>14, <1>15, BoundFrame, CurrentFrame DEF Promised!Run

LEMMA CallbackReturnsFinishes ==
    ASSUME IInv, NEW t \in Threads, CallbackReturns(t)
    PROVE  Bound' = Bound /\ Promised!Finish(t)
<1> DEFINE c == SubSeq(stack[t], 1, Len(stack[t]) - 1)
           sb == thread_data[t].sandbox
<1>0. CallsInv
    BY DEF IInv
<1>1. stack[t] # <<>> /\ Top(t).is = "running" /\ InProgram(t)
    BY DEF CallbackReturns, InProgram
<1>2. UNCHANGED <<table, callback_unique_keys, thread_data>>
    BY DEF CallbackReturns, tables
<1>3. stack' = [stack EXCEPT ![t] = c] /\ thread_data' = [thread_data EXCEPT ![t] = thread_data[t]]
    BY <1>0 DEF CallbackReturns, Pop, CallsInv, CallsTypeOK
<1>4. stack[t] \in Seq(Frames) /\ Len(stack[t]) \in Nat \ {0}
    BY <1>0, <1>1, CallFacts
<1>5. Seen(sb, callback_unique_keys, c) = SubSeq(CallsSeen[t], 1, Len(CallsSeen[t]) - 1)
  <2> DEFINE d == stack[t]
             keys == callback_unique_keys
  <2>1. c = SubSeq(d, 1, Len(d) - 1) /\ d \in Seq(Frames) /\ d # <<>>
      BY <1>1, <1>4
  <2> HIDE DEF c, d, sb, keys
  <2>2. Seen(sb, keys, SubSeq(d, 1, Len(d) - 1))
          = SubSeq(Seen(sb, keys, d), 1, Len(Seen(sb, keys, d)) - 1)
      BY <2>1, SeenPop
  <2>3. CallsSeen[t] = Seen(sb, keys, d)
      BY <1>0, TopSeen DEF sb, keys, d
  <2>4. Seen(sb, keys, c) = SubSeq(CallsSeen[t], 1, Len(CallsSeen[t]) - 1)
      BY <2>1, <2>2, <2>3
  <2> QED
      BY <2>4 DEF keys
<1> HIDE DEF c
<1>6. CallsSeen' = [CallsSeen EXCEPT ![t] = Seen(sb, callback_unique_keys, c)]
    BY <1>0, <1>2, <1>3, CallsSeenOfOne
<1>7. CallsSeen[t] # <<>> /\ Promised!Top(t).is = "running"
    BY <1>0, <1>1, TopSeen, InProgramSeen DEF Promised!InProgram
<1>8. Promised!Pop(t)
    BY <1>5, <1>6 DEF Promised!Pop
<1> QED
    BY <1>2, <1>7, <1>8, BoundFrame, CurrentFrame DEF Promised!Finish

-----------------------------------------------------------------------------
(* The refinement                                                          *)

LEMMA InitPromised == Init => Promised!Init
<1> SUFFICES ASSUME Init PROVE Promised!Init
    OBVIOUS
<1>1. Bound = [s \in Sandboxes |-> [i \in Indices |-> None]]
    BY DEF Init, Bound, Slots
<1>2. ASSUME NEW t \in Threads PROVE CallsSeen[t] = <<>>
    BY InitInv, TopSeen DEF IInv, Init
<1>3. CallsSeen = [t \in Threads |-> <<>>]
    BY <1>2 DEF CallsSeen
<1>4. Current = [t \in Threads |-> None]
    BY DEF Init, Current
<1> QED
    BY <1>1, <1>3, <1>4 DEF Promised!Init

LEMMA NextPromised == ASSUME IInv, [Next]_vars PROVE [Promised!Next]_(Promised!vars)
<1>1. CASE UNCHANGED vars
    BY <1>1, BoundFrame, QuietStep DEF vars, tables
<1>2. CASE Next
  <2> SUFFICES ASSUME NEW t \in Threads,
                   \/ \E s \in Sandboxes :
                       \/ Create(t, s) \/ Destroy(t, s) \/ CreateFails(t, s)
                       \/ InvokeWithFuncPtr(t, s)
                       \/ \E k \in Keys : Register(t, s, k) \/ RegisterFull(t, s, k) \/ Unregister(t, s, k)
                       \/ \E f \in Internals : GetSandboxedPointer(t, s, f)
                       \/ \E size \in Sizes : InvokeReturningClass(t, s, size)
                   \/ \E i \in Indices : CallbackInterceptor(t, i)
                   \/ InvocationReturns(t)
                   \/ LookUpCallback(t)
                   \/ GetExecutedCallbackSandboxAndKey(t)
                   \/ CallbackReturns(t)
               PROVE  [Promised!Next]_(Promised!vars)
      BY <1>2 DEF Next, Step
  <2>1. ASSUME NEW s \in Sandboxes, Create(t, s) PROVE UNCHANGED Promised!vars
      BY <2>1, CreateQuiet
  <2>2. ASSUME NEW s \in Sandboxes, Destroy(t, s) \/ CreateFails(t, s)
                   \/ (\E k \in Keys : RegisterFull(t, s, k))
        PROVE UNCHANGED Promised!vars
      BY <2>2, DestroyQuiet
  <2>3. ASSUME NEW s \in Sandboxes, NEW f \in Internals, GetSandboxedPointer(t, s, f)
        PROVE UNCHANGED Promised!vars
      BY <2>3, PointerQuiet
  <2>4. ASSUME NEW s \in Sandboxes, NEW k \in Keys, Register(t, s, k) PROVE Promised!Next
      BY <2>4, RegisterRebinds DEF Promised!Next
  <2>5. ASSUME NEW s \in Sandboxes, NEW k \in Keys, Unregister(t, s, k) PROVE Promised!Next
      BY <2>5, UnregisterRebinds DEF Promised!Next
  <2>6. ASSUME NEW s \in Sandboxes, InvokeWithFuncPtr(t, s) PROVE Promised!Next
    <3>1. Bound' = Bound /\ Promised!Invoke(t, s)
        BY <2>6, InvokeInvokes
    <3> QED
        BY <3>1 DEF Promised!Next
  <2>7. ASSUME NEW s \in Sandboxes, NEW size \in Sizes, InvokeReturningClass(t, s, size)
        PROVE Promised!Next
    <3>1. Bound' = Bound /\ Promised!Invoke(t, s)
        BY <2>7, InvokeInvokes
    <3> QED
        BY <3>1 DEF Promised!Next
  <2>8. ASSUME NEW i \in Indices, CallbackInterceptor(t, i) PROVE Promised!Next
    <3>1. Bound' = Bound /\ Promised!Call(t, i)
        BY <2>8, InterceptorCallsBound
    <3> QED
        BY <3>1 DEF Promised!Next
  <2>9. ASSUME InvocationReturns(t) PROVE Promised!Next
      BY <2>9, InvocationReturnsReturns DEF Promised!Next
  <2>10. ASSUME LookUpCallback(t) PROVE UNCHANGED Promised!vars
      BY <2>10, LookUpQuiet
  <2>11. ASSUME GetExecutedCallbackSandboxAndKey(t) PROVE Promised!Next
      BY <2>11, KeyReadRuns DEF Promised!Next
  <2>12. ASSUME CallbackReturns(t) PROVE Promised!Next
      BY <2>12, CallbackReturnsFinishes DEF Promised!Next
  <2> QED
      BY <2>1, <2>2, <2>3, <2>4, <2>5, <2>6, <2>7, <2>8, <2>9, <2>10, <2>11, <2>12
<1> QED
    BY <1>1, <1>2

(* At any nesting of calls and in any interleaving of threads, a call of a *)
(* registered index runs the function that was registered, in the context  *)
(* of the sandbox that called it (impl_invoke_with_func_ptr,               *)
(* callback_interceptor, impl_register_callback).                          *)
THEOREM TableImplemented == Spec => ImplementsCallbackTable
<1>1. Init => Promised!Init
    BY InitPromised
<1>2. IInv /\ [Next]_vars => [Promised!Next]_(Promised!vars)
    BY NextPromised
<1> QED
    BY <1>1, <1>2, Invariance, PTL DEF Spec, ImplementsCallbackTable, Promised!Spec
=============================================================================
