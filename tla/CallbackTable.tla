--------------------------- MODULE CallbackTable ---------------------------
(***************************************************************************)
(* What a program may rely on when it hands callbacks to sandboxes: while  *)
(* a callback is registered under an index of a sandbox's function table,  *)
(* a call of that index, from any thread and at any nesting of calls into  *)
(* sandboxes and out of them, runs the function that was registered, in    *)
(* the context of the sandbox that called it.                              *)
(***************************************************************************)
EXTENDS Naturals, Sequences

CONSTANTS Threads, Sandboxes, Keys, Indices, None

VARIABLES bound,    \* per sandbox and index: the key registered there, or None
          calls,    \* per thread: the calls it is in, the outermost first
          current   \* per thread: the sandbox it runs in or was called from

vars == <<bound, calls, current>>

Init ==
    /\ bound = [s \in Sandboxes |-> [i \in Indices |-> None]]
    /\ calls = [t \in Threads |-> <<>>]
    /\ current = [t \in Threads |-> None]

Top(t) == calls[t][Len(calls[t])]

InProgram(t) == calls[t] # <<>> => Top(t).is = "running"

\* The sandbox of the innermost invocation among the calls c.
Innermost(c) ==
    LET invocations == {j \in 1..Len(c) : c[j].is = "invoke"}
    IN  IF invocations = {} THEN None
        ELSE c[CHOOSE j \in invocations : \A k \in invocations : k <= j].of

Push(t, is, of) == calls' = [calls EXCEPT ![t] = Append(@, [is |-> is, of |-> of])]

Pop(t) == calls' = [calls EXCEPT ![t] = SubSeq(@, 1, Len(@) - 1)]

\* The registration under index i of sandbox s is made, with key k, or undone.
Rebind(s, i, k) ==
    /\ (bound[s][i] = None) # (k = None)
    /\ bound' = [bound EXCEPT ![s][i] = k]

Invoke(t, s) ==
    /\ InProgram(t)
    /\ Push(t, "invoke", s)
    /\ current' = [current EXCEPT ![t] = s]

Return(t) ==
    /\ calls[t] # <<>> /\ Top(t).is = "invoke"
    /\ Pop(t)
    /\ current' = [current EXCEPT ![t] = Innermost(calls'[t])]

Call(t, i) ==
    /\ calls[t] # <<>> /\ Top(t).is = "invoke"
    /\ bound[Top(t).of][i] # None
    /\ Push(t, "entered", bound[Top(t).of][i])
    /\ UNCHANGED current

Run(t) ==
    /\ calls[t] # <<>> /\ Top(t).is = "entered"
    /\ calls' = [calls EXCEPT ![t][Len(calls[t])].is = "running"]
    /\ UNCHANGED current

Finish(t) ==
    /\ calls[t] # <<>> /\ Top(t).is = "running"
    /\ Pop(t)
    /\ UNCHANGED current

Next ==
    \/ /\ UNCHANGED <<calls, current>>
       /\ \E s \in Sandboxes, i \in Indices, k \in Keys \cup {None} : Rebind(s, i, k)
    \/ /\ UNCHANGED bound
       /\ \E t \in Threads :
            \/ Return(t) \/ Run(t) \/ Finish(t)
            \/ \E s \in Sandboxes : Invoke(t, s)
            \/ \E i \in Indices : Call(t, i)

Spec == Init /\ [][Next]_vars
=============================================================================
