------------------------------- MODULE Startup -------------------------------
(***************************************************************************)
(* Start-up and tear-down: KmtHsaInit and KmtHsaDeInit of kmthsa.cpp with  *)
(* the topology and the address space of memory.cpp, and between them the  *)
(* calls of HsaAqlCreate.  Each step opens a device, reads keys of sysfs   *)
(* files, or asks the kernel driver, and each may fail; this module is     *)
(* about which failures the program notices, and about the queues that     *)
(* outlive a tear-down.                                                    *)
(*                                                                         *)
(* The kernel driver is external: a call on a bad descriptor fails, a call *)
(* on a good one may.  It keeps a process's queues when the device is      *)
(* closed.                                                                 *)
(***************************************************************************)
EXTENDS KmtQueue

CONSTANTS
  Topologies,  (* numbers of memory banks of the CPU and the GPU, and of   *)
               (* caches of the GPU                                        *)
  MaxFiles,    (* descriptors a process can have open                      *)
  InitLimit    (* bound: calls of KmtHsaInit                               *)

ASSUME StartupAssumption ==
  /\ Topologies \subseteq [cpuBanks : Nat, gpuBanks : Nat, caches : Nat]
  /\ MaxFiles \in Nat /\ InitLimit \in Nat

VARIABLES
  topology,   (* what the sysfs files say                                  *)
  kfd,        (* gKfdFd: "closed", "open", or "bad" when open failed       *)
  drm,        (* gDrmFd, likewise                                          *)
  leaked,     (* files kmtReadKey has left open                            *)
  vm,         (* has the driver taken over the VM of the DRM file?         *)
  apertures,  (* is svm_dgpu_aperture the driver's?                        *)
  i,          (* counter of the loop of get_mem_topology                   *)
  inits,      (* calls of KmtHsaInit so far                                *)
  pc

vars == <<topology, kfd, drm, leaked, vm, apertures, i, inits, pc, queueVars>>

Open(d) == IF d = "open" THEN 1 ELSE 0
FilesFree == MaxFiles - (Open(kfd) + Open(drm) + leaked)

\* Outcomes of an open: descriptors may be used up, or the device refuse.
Opened == IF FilesFree > 0 THEN {"open", "bad"} ELSE {"bad"}

\* Outcomes of an ioctl on descriptor d.
Answers(d) == IF d = "open" THEN BOOLEAN ELSE {FALSE}

\* Fault: every file is closed.
kmtReadKey_Closes(n, exists, next) ==
  /\ IF exists /\ FilesFree > 0 THEN pc' = next
     ELSE pc' = "segv"
  /\ UNCHANGED leaked

\* n calls of kmtReadKey.  A key that is found is returned before the file is closed.
\* A file that cannot be opened is read all the same.
kmtReadKey(n, exists, next) ==
  IF n = 0 THEN pc' = next /\ UNCHANGED leaked
  ELSE IF exists /\ FilesFree >= n
       THEN pc' = next /\ leaked' = leaked + n
       ELSE pc' = "segv" /\ UNCHANGED leaked

-----------------------------------------------------------------------------
kmtOpen ==
  /\ pc = "off" /\ inits < InitLimit
  /\ inits' = inits + 1
  /\ kfd' \in Opened        \* a bad descriptor is -1, and the assert excludes 0
  /\ pc' = "info"
  /\ UNCHANGED <<topology, drm, leaked, vm, apertures, i, queueVars>>

\* The version, whose failure nobody looks at, and gpu_id.
kmtGetInfo ==
  /\ pc = "info"
  /\ kmtReadKey(1, TRUE, "cpuBanks")
  /\ i' = 0
  /\ UNCHANGED <<topology, kfd, drm, vm, apertures, inits, queueVars>>

\* The loops of get_mem_topology: before each the number of its turns is read.
CpuBank ==
  /\ pc = "cpuBanks"
  /\ IF i < topology.cpuBanks
     THEN i' = i + 1 /\ kmtReadKey(IF i = 0 THEN 4 ELSE 3, TRUE, pc)
     ELSE i' = 0 /\ kmtReadKey(IF i = 0 THEN 1 ELSE 0, TRUE, "gpuBanks")
  /\ UNCHANGED <<topology, kfd, drm, vm, apertures, inits, queueVars>>

\* Fault: one turn more.
GpuBank_OneMore ==
  /\ pc = "gpuBanks"
  /\ IF i <= topology.cpuBanks
     THEN i' = i + 1 /\ kmtReadKey(IF i = 0 THEN 4 ELSE 3, i < topology.gpuBanks, pc)
     ELSE i' = 0 /\ kmtReadKey(IF i = 0 THEN 1 ELSE 0, TRUE, "caches")
  /\ UNCHANGED <<topology, kfd, drm, vm, apertures, inits, queueVars>>

\* The GPU's loop takes as many turns as the CPU has banks.
GpuBank ==
  /\ pc = "gpuBanks"
  /\ IF i < topology.cpuBanks
     THEN i' = i + 1 /\ kmtReadKey(IF i = 0 THEN 4 ELSE 3, i < topology.gpuBanks, pc)
     ELSE i' = 0 /\ kmtReadKey(IF i = 0 THEN 1 ELSE 0, TRUE, "caches")
  /\ UNCHANGED <<topology, kfd, drm, vm, apertures, inits, queueVars>>

Cache ==
  /\ pc = "caches"
  /\ IF i < topology.caches
     THEN i' = i + 1 /\ kmtReadKey(IF i = 0 THEN 4 ELSE 3, TRUE, pc)
     ELSE i' = 0 /\ kmtReadKey(IF i = 0 THEN 2 ELSE 1, TRUE, "drm")  \* and the minor
  /\ UNCHANGED <<topology, kfd, drm, vm, apertures, inits, queueVars>>

open_drm ==
  /\ pc = "drm"
  /\ drm' \in Opened
  /\ pc' = "acquire"
  /\ UNCHANGED <<topology, kfd, leaked, vm, apertures, i, inits, queueVars>>

\* The result is overwritten with 0 before it is asserted to be 0.
acquire_vm_from_drm ==
  /\ pc = "acquire"
  /\ \E ok \in Answers(kfd) : vm' = (ok /\ drm = "open")
  /\ pc' = "apertures"
  /\ UNCHANGED <<topology, kfd, drm, leaked, apertures, i, inits, queueVars>>

\* Fault: the result is not looked at here either.
get_process_apertures_Unchecked ==
  /\ pc = "apertures"
  /\ \E ok \in Answers(kfd) : apertures' = ok
  /\ pc' = "queue"
  /\ UNCHANGED <<topology, kfd, drm, leaked, vm, i, inits, queueVars>>

\* Fault: the ioctl is repeated until the driver obliges.
get_process_apertures_Retries ==
  /\ pc = "apertures"
  /\ \E ok \in Answers(kfd) : /\ apertures' = ok
                              /\ pc' = IF ok THEN "queue" ELSE pc
  /\ UNCHANGED <<topology, kfd, drm, leaked, vm, i, inits, queueVars>>

get_process_apertures ==
  /\ pc = "apertures"
  /\ \E ok \in Answers(kfd) : /\ apertures' = ok
                              /\ pc' = IF ok THEN "queue" ELSE "assert"
  /\ UNCHANGED <<topology, kfd, drm, leaked, vm, i, inits, queueVars>>

\* The driver's refusal fails an assert.  Its answers to the allocations are
\* KmtMemory's concern.
CreateQueue(type) ==
  /\ \/ KmtCreateQueue(type) /\ pc' = "ready"
     \/ CreateRefused(type) /\ pc' = "refused"
     \/ CreateOverruns(type) /\ pc' = "overrun"
  /\ UNCHANGED <<topology, kfd, drm, leaked, vm, apertures, i, inits>>

hsaInitSdma == pc = "queue" /\ CreateQueue("sdma")

HsaAqlCreate == pc = "ready" /\ CreateQueue("aql")

hsaDeInitSdma ==
  /\ pc = "ready"
  /\ \E q \in queues : q.type = "sdma" /\ KmtDestroyQueue(q)
  /\ pc' = "deinit"
  /\ UNCHANGED <<topology, kfd, drm, leaked, vm, apertures, i, inits>>

\* Fault: close_drm is forgotten.
Close_KfdOnly ==
  /\ pc = "deinit"
  /\ kfd' = "closed"
  /\ pc' = "off"
  /\ UNCHANGED <<topology, drm, leaked, vm, apertures, i, inits, queueVars>>

\* kmtDeInitMem and kmtClose.
Close ==
  /\ pc = "deinit"
  /\ drm' = "closed" /\ kfd' = "closed"
  /\ pc' = "off"
  /\ UNCHANGED <<topology, leaked, vm, apertures, i, inits, queueVars>>

-----------------------------------------------------------------------------
Init ==
  /\ topology \in Topologies
  /\ kfd = "closed" /\ drm = "closed" /\ leaked = 0
  /\ vm = FALSE /\ apertures = FALSE
  /\ i = 0 /\ inits = 0
  /\ pc = "off"
  /\ QueueInit

Starting == \/ kmtGetInfo
            \/ CpuBank
            \/ GpuBank
            \/ Cache
            \/ open_drm
            \/ acquire_vm_from_drm
            \/ get_process_apertures
            \/ hsaInitSdma

Next == kmtOpen \/ Starting \/ HsaAqlCreate \/ hsaDeInitSdma \/ Close

\* The thread runs.
Spec == Init /\ [][Next]_vars /\ WF_vars(Starting) /\ WF_vars(Close)

=============================================================================
