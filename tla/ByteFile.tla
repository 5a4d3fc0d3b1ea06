------------------------------ MODULE ByteFile ------------------------------
(***************************************************************************)
(* What a user of an OpenJPEG stream relies on: a file and a position in   *)
(* it.  A read delivers the bytes at the position, a write stores its      *)
(* bytes there, each in order and without gaps; a skip moves the position  *)
(* forward and a seek sets it.  Buffers do not exist.  Once a write has    *)
(* failed nothing is promised about the file.                              *)
(***************************************************************************)
EXTENDS Integers, Sequences

CONSTANT Length

VARIABLES file, pos, call, got, src, broken

vars == <<file, pos, call, got, src, broken>>

Get(f, at, n) == [i \in 1..n |-> f[at + i - 1]]
Put(f, at, bytes) ==
    [i \in DOMAIN f |-> IF i \in at..(at + Len(bytes) - 1) THEN bytes[i - at + 1] ELSE f[i]]

Init == pos = 0 /\ got = <<>> /\ src = <<>> /\ broken = FALSE

(* What the current call, or one that begins with this step, has delivered.*)
GotSoFar == IF call' = call THEN got ELSE <<>>

Begin == call' # call /\ got' = <<>> /\ UNCHANGED <<file, pos>>

Read == /\ call'.op = "read"
        /\ \E n \in 0..(Length - pos) :
              pos' = pos + n /\ got' = GotSoFar \o Get(file, pos, n)
        /\ UNCHANGED <<file, src>>

Write == /\ call' = call /\ call.op = "write"
         /\ \E n \in 0..Len(src) :
               /\ file' = Put(file, pos, SubSeq(src, 1, n))
               /\ pos' = pos + n
               /\ src' = SubSeq(src, n + 1, Len(src))
         /\ UNCHANGED got

Skip == /\ call'.op = "skip"
        /\ pos' \in pos..(call'.start + call'.arg)
        /\ UNCHANGED <<file, src>>

Seek == /\ call'.op = "seek"
        /\ pos' \in {pos, call'.arg}
        /\ UNCHANGED <<file, src>>

(* A failed write breaks the file for good.                                *)
Next == \/ broken'
        \/ ~broken /\ ~broken' /\ (Begin \/ Read \/ Write \/ Skip \/ Seek)

Spec == Init /\ [][Next]_vars
=============================================================================
