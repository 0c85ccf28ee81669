------------------------------ MODULE DmaOrder ------------------------------
(***************************************************************************)
(* What HsaSdmaCopy and HsaSdmaWrite of src/src/sdma.cpp promise: the      *)
(* requests of one thread are performed one at a time, whole, once each    *)
(* and in the order of the calls.  If synchronous, a call returns only     *)
(* when nothing is left to perform, so the thread sees its own copies.     *)
(***************************************************************************)
EXTENDS Naturals, Sequences

CONSTANTS
  Cells,        (* addresses of memory                                     *)
  Values,       (* what a cell can hold                                    *)
  Requests      (* the requests that can be made                           *)

VARIABLES
  mem,         (* contents of memory                                       *)
  pending,     (* requests made and not performed, oldest first            *)
  calling,     (* is the thread inside a call?                             *)
  synchronous  (* does a call wait for its request?                        *)

vars == <<mem, pending, calling, synchronous>>

\* Memory m after request r: a copy of r.size cells, or one cell written.
Effect(m, r) ==
  IF r.op = "write" THEN [m EXCEPT ![r.dst] = r.data]
  ELSE [x \in Cells |-> IF x \in r.dst .. r.dst + r.size - 1
                        THEN m[r.src + (x - r.dst)] ELSE m[x]]

Call(r) ==
  /\ ~ calling
  /\ calling' = TRUE
  /\ pending' = Append(pending, r)
  /\ UNCHANGED <<mem, synchronous>>

Perform ==
  /\ pending # << >>
  /\ mem' = Effect(mem, Head(pending))
  /\ pending' = Tail(pending)
  /\ UNCHANGED <<calling, synchronous>>

Return ==
  /\ calling
  /\ synchronous => pending = << >>
  /\ calling' = FALSE
  /\ UNCHANGED <<mem, pending, synchronous>>

Store(x, v) ==
  /\ ~ calling
  /\ mem' = [mem EXCEPT ![x] = v]
  /\ UNCHANGED <<pending, calling, synchronous>>

Init ==
  /\ mem \in [Cells -> Values]
  /\ pending = << >>
  /\ calling = FALSE
  /\ synchronous \in BOOLEAN

Next ==
  \/ \E r \in Requests : Call(r)
  \/ Perform
  \/ Return
  \/ \E x \in Cells, v \in Values : Store(x, v)

Spec == Init /\ [][Next]_vars

=============================================================================
