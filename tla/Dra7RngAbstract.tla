-------------------------- MODULE Dra7RngAbstract --------------------------
(***************************************************************************)
(* What hw_get_random_byte promises its callers: each call takes effect at *)
(* one instant, at which it is handed the next byte index of the sample   *)
(* buffer; the indices go out in order, one per call, wrapping after the  *)
(* last byte.  (When the buffer is refilled is stated by NoByteDiscarded  *)
(* in Dra7Rng.)                                                            *)
(***************************************************************************)
EXTENDS Naturals

CONSTANTS Threads, NBytes

VARIABLES
    call,   \* per thread: "idle", "waiting" (entered) or "got" (has its byte)
    next,   \* index of the byte the next call is handed
    got     \* per thread: the index it was handed

vars == <<call, next, got>>

Init ==
    /\ call = [t \in Threads |-> "idle"]
    /\ next = 0
    /\ got = [t \in Threads |-> 0]

Enter(t) ==
    /\ call[t] = "idle"
    /\ call' = [call EXCEPT ![t] = "waiting"]
    /\ UNCHANGED <<next, got>>

Get(t) ==
    /\ call[t] = "waiting"
    /\ call' = [call EXCEPT ![t] = "got"]
    /\ got' = [got EXCEPT ![t] = next]
    /\ next' = (next + 1) % NBytes

Return(t) ==
    /\ call[t] = "got"
    /\ call' = [call EXCEPT ![t] = "idle"]
    /\ got' = [got EXCEPT ![t] = 0]
    /\ UNCHANGED next

Next == \E t \in Threads : Enter(t) \/ Get(t) \/ Return(t)

Spec == Init /\ [][Next]_vars

=============================================================================
