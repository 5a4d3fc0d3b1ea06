---------------------------- MODULE ImageValues ----------------------------
(***************************************************************************)
(* What sharing images and pixel caches promises: value semantics.  Every  *)
(* owner of an image has a value of its own; a step changes the value of   *)
(* one owner, or copies one owner's value to an owner that had none.       *)
(***************************************************************************)
CONSTANTS Owners,    (* holders of images                                  *)
          Values,    (* what an image may look like                        *)
          Absent     (* the owner has no image                             *)

VARIABLE value

Init == value = [o \in Owners |-> Absent]

Create(o) == /\ value[o] = Absent
             /\ \E v \in Values : value' = [value EXCEPT ![o] = v]

Copy(o, p) == /\ value[o] # Absent /\ value[p] = Absent
              /\ value' = [value EXCEPT ![p] = value[o]]

Write(o) == /\ value[o] # Absent
            /\ \E v \in Values : value' = [value EXCEPT ![o] = v]

Release(o) == /\ value[o] # Absent
              /\ value' = [value EXCEPT ![o] = Absent]

Next == \E o \in Owners : \/ Create(o) \/ Write(o) \/ Release(o)
                          \/ \E p \in Owners : Copy(o, p)

Spec == Init /\ [][Next]_value
=============================================================================
