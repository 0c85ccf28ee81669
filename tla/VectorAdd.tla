------------------------------ MODULE VectorAdd ------------------------------
(***************************************************************************)
(* The program of src/src/main.cpp and the compute queue of src/src/aql.cpp*)
(* it launches its kernel with: two vectors are copied to the GPU, the     *)
(* kernel is loaded, a packet and three arguments are written, the doorbell*)
(* is rung, the thread sleeps a millisecond, copies the sum back and frees *)
(* everything.  Nothing tells the thread that the kernel has ended: the    *)
(* packet has no completion signal, and the sleep may be too short.        *)
(*                                                                         *)
(* HsaSdmaCopy is what DmaOrder promises of it: done when it returns.      *)
(* HsaLoadKernel is module Loader, step by step.  The packet processor and *)
(* the waves of the kernel (kernel/VectorAdd.s) are external.              *)
(***************************************************************************)
EXTENDS Loader

CONSTANTS
  Groups,       (* work-groups of the grid, each adding its part           *)
  Values,       (* what an element can be                                  *)
  ArgSlots      (* KERNEL_ARG_MAX_SIZE, in arguments of 8 bytes: main     *)
                (* passes three                                             *)

ASSUME VectorAddAssumption ==
  /\ Values \subseteq Nat /\ Values # {}
  /\ ArgSlots \in Nat /\ ArgSlots >= 3

Host == {"h_A", "h_B", "h_C"}
Device == {"d_A", "d_B", "d_C"}
Buffers == Host \cup Device

\* What the program does, in order.
Program == <<"alloc", "prepare", "copyA", "copyB", "load", "create", "packet", "argA",
             "argB", "argC", "doorbell", "sleep", "copyBack", "print", "free", "free",
             "free", "free", "free", "free", "end">>
FreeOrder == <<"h_A", "h_B", "h_C", "d_A", "d_B", "d_C">>

VARIABLES
  step,       (* position in Program                                       *)
  live,       (* buffers allocated and not freed                           *)
  mem,        (* their contents, an element per group                      *)
  AqlPkt,     (* the packet: its type, its work-groups, its kernel         *)
  args,       (* what lies at KernelArgsAddress                            *)
  argsPtr,    (* KernelArgsPtr, relative to it                             *)
  rung,       (* was the doorbell rung?                                    *)
  wave,       (* what each work-group has done                             *)
  fault,      (* did the kernel touch memory that is gone?                 *)
  early       (* had the kernel work left when the sum was copied?         *)

vars == <<step, live, mem, AqlPkt, args, argsPtr, rung, wave, fault, early, loaderVars>>

at(op) == Program[step] = op
Zeros == [g \in Groups |-> 0]
KernelEnded == \A g \in Groups : wave[g].is = "done"

-----------------------------------------------------------------------------
(* The thread.                                                             *)

Allocate ==
  /\ at("alloc")
  /\ live' = Buffers
  /\ mem' = [b \in Buffers |-> Zeros]
  /\ step' = step + 1
  /\ UNCHANGED <<AqlPkt, args, argsPtr, rung, wave, fault, early, loaderVars>>

PrepareData ==
  /\ at("prepare")
  /\ \E A \in [Groups -> Values], B \in [Groups -> Values] :
       mem' = [mem EXCEPT !["h_A"] = A, !["h_B"] = B]
  /\ step' = step + 1
  /\ UNCHANGED <<live, AqlPkt, args, argsPtr, rung, wave, fault, early, loaderVars>>

HsaSdmaCopy(dst, src) ==
  /\ mem' = [mem EXCEPT ![dst] = mem[src]]
  /\ step' = step + 1
  /\ UNCHANGED <<live, AqlPkt, args, argsPtr, rung, wave, fault, loaderVars>>

\* Fault: the same vector twice.
CopyToGpu_SameSource ==
  \/ at("copyA") /\ HsaSdmaCopy("d_A", "h_A") /\ UNCHANGED early
  \/ at("copyB") /\ HsaSdmaCopy("d_B", "h_A") /\ UNCHANGED early

CopyToGpu ==
  \/ at("copyA") /\ HsaSdmaCopy("d_A", "h_A") /\ UNCHANGED early
  \/ at("copyB") /\ HsaSdmaCopy("d_B", "h_B") /\ UNCHANGED early

HsaLoadKernel ==
  /\ at("load")
  /\ LoaderNext
  /\ step' = IF loading' = "done" THEN step + 1 ELSE step
  /\ UNCHANGED <<live, mem, AqlPkt, args, argsPtr, rung, wave, fault, early>>

\* Every header says invalid; then the first packet is zeroed, header and all.
HsaAqlCreate ==
  /\ at("create")
  /\ AqlPkt' = [header |-> "vendor", groups |-> {}, kernel |-> None]
  /\ args' = [k \in 0 .. ArgSlots - 1 |-> "none"]
  /\ argsPtr' = 0
  /\ step' = step + 1
  /\ UNCHANGED <<live, mem, rung, wave, fault, early, loaderVars>>

HsaAqlSetPkt ==
  /\ at("packet")
  /\ AqlPkt' = [header |-> "dispatch", groups |-> Groups, kernel |-> KernelSymbolAddress]
  /\ step' = step + 1
  /\ UNCHANGED <<live, mem, args, argsPtr, rung, wave, fault, early, loaderVars>>

\* Fault: the place of the next argument moves too far.
HsaAqlSetKernelArg_PtrTooFar(x) ==
  /\ args' = [args EXCEPT ![argsPtr] = x]
  /\ argsPtr' = argsPtr + 2
  /\ step' = step + 1
  /\ UNCHANGED <<live, mem, AqlPkt, rung, wave, fault, early, loaderVars>>

HsaAqlSetKernelArg(x) ==
  /\ args' = [args EXCEPT ![argsPtr] = x]
  /\ argsPtr' = argsPtr + 1
  /\ step' = step + 1
  /\ UNCHANGED <<live, mem, AqlPkt, rung, wave, fault, early, loaderVars>>

SetArguments ==
  \/ at("argA") /\ HsaAqlSetKernelArg("d_A")
  \/ at("argB") /\ HsaAqlSetKernelArg("d_B")
  \/ at("argC") /\ HsaAqlSetKernelArg("d_C")

\* Fault: the doorbell is not written.
HsaAqlRingDoorbell_NotWritten ==
  /\ at("doorbell")
  /\ step' = step + 1
  /\ UNCHANGED <<live, mem, AqlPkt, args, argsPtr, rung, wave, fault, early, loaderVars>>

HsaAqlRingDoorbell ==
  /\ at("doorbell")
  /\ rung' = TRUE
  /\ step' = step + 1
  /\ UNCHANGED <<live, mem, AqlPkt, args, argsPtr, wave, fault, early, loaderVars>>

\* However long the sleep, the kernel may take longer.
Sleep ==
  /\ at("sleep")
  /\ step' = step + 1
  /\ UNCHANGED <<live, mem, AqlPkt, args, argsPtr, rung, wave, fault, early, loaderVars>>

CopyBack ==
  /\ at("copyBack")
  /\ HsaSdmaCopy("h_C", "d_C")
  /\ early' = ~ KernelEnded

PrintResult ==
  /\ at("print")
  /\ step' = step + 1
  /\ UNCHANGED <<live, mem, AqlPkt, args, argsPtr, rung, wave, fault, early, loaderVars>>

FreeMem ==
  /\ at("free")
  /\ live' = live \ {FreeOrder[step + 7 - Len(Program)]}
  /\ step' = step + 1
  /\ UNCHANGED <<mem, AqlPkt, args, argsPtr, rung, wave, fault, early, loaderVars>>

-----------------------------------------------------------------------------
(* The GPU.                                                                *)

\* The packet processor starts the work-groups of a packet the doorbell names.
Dispatch ==
  /\ rung /\ AqlPkt.header = "dispatch"
  /\ \A g \in Groups : wave[g].is = "none"
  /\ wave' = [g \in Groups |-> IF g \in AqlPkt.groups THEN [is |-> "started"] ELSE wave[g]]
  /\ UNCHANGED <<step, live, mem, AqlPkt, args, argsPtr, rung, fault, early, loaderVars>>

\* Is there a kernel's code at address a of the GPU?
KernelAt(a) ==
  /\ a \in DOMAIN CtxDev
  /\ \E s \in DOMAIN syms : syms[s].kernel /\ CtxDev[a] = Contents(syms[s].addr)

\* A work-group loads its parts of the first two arguments, adds, and stores to the
\* third.  A wave that touches memory that is not there, or finds no kernel to run, dies.
WaveLoad(g) ==
  /\ wave[g].is = "started"
  /\ IF KernelAt(AqlPkt.kernel) /\ {args[0], args[1]} \subseteq live
     THEN /\ wave' = [wave EXCEPT ![g] = [is |-> "loaded", c |-> mem[args[0]][g] + mem[args[1]][g]]]
          /\ UNCHANGED fault
     ELSE fault' = TRUE /\ wave' = [wave EXCEPT ![g] = [is |-> "done"]]
  /\ UNCHANGED <<step, live, mem, AqlPkt, args, argsPtr, rung, early, loaderVars>>

WaveStore(g) ==
  /\ wave[g].is = "loaded"
  /\ wave' = [wave EXCEPT ![g] = [is |-> "done"]]
  /\ IF args[2] \in live
     THEN mem' = [mem EXCEPT ![args[2]][g] = wave[g].c] /\ UNCHANGED fault
     ELSE fault' = TRUE /\ UNCHANGED mem
  /\ UNCHANGED <<step, live, AqlPkt, args, argsPtr, rung, early, loaderVars>>

-----------------------------------------------------------------------------
Init ==
  /\ step = 1
  /\ live = {} /\ mem = [b \in Buffers |-> Zeros]
  /\ AqlPkt = [header |-> "none", groups |-> {}, kernel |-> None]
  /\ args = [k \in 0 .. ArgSlots - 1 |-> "none"] /\ argsPtr = 0
  /\ rung = FALSE /\ wave = [g \in Groups |-> [is |-> "none"]]
  /\ fault = FALSE /\ early = FALSE
  /\ LoaderInit

Thread == \/ Allocate
          \/ PrepareData
          \/ CopyToGpu
          \/ HsaLoadKernel
          \/ HsaAqlCreate
          \/ HsaAqlSetPkt
          \/ SetArguments
          \/ HsaAqlRingDoorbell
          \/ Sleep
          \/ CopyBack
          \/ PrintResult
          \/ FreeMem

Gpu == Dispatch \/ \E g \in Groups : WaveLoad(g) \/ WaveStore(g)

Next == Thread \/ Gpu

\* The thread runs, and the GPU works off what it was given.
Spec == Init /\ [][Next]_vars /\ WF_vars(Thread) /\ WF_vars(Gpu)

=============================================================================
