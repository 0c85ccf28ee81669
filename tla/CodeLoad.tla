-------------------------------- MODULE CodeLoad --------------------------------
(***************************************************************************)
(* A code object built by a finalizer (HsaCode), written, read back and    *)
(* loaded by HsaLoadKernel (Loader).                                       *)
(***************************************************************************)
EXTENDS HsaCode, Loader

vars == <<codeVars, loaderVars>>

\* create_code_object.  InitAsBuffer may crash, and when it fails its result is dropped;
\* without a data segment DataSegment(seg_cnt - 1) is off the vector's end.
create_code_object ==
  /\ loading = "create"
  /\ frozen
  /\ CodeObject' = [segs |-> DataSegments,
                    syms |-> [j \in DOMAIN PulledSymbols |->
                                [addr |-> VAddr(PulledSymbols[j]),
                                 kernel |-> PulledSymbols[j].type = "kernel"]]]
  /\ loading' = IF ReadsNoBits \/ DataSegments = << >> THEN "crashed" ELSE "alloc"
  /\ UNCHANGED <<codeVars, CtxMemSize, CtxHst, CtxDev, index, KernelSymbolAddress>>

Init ==
  /\ CodeInit
  /\ CodeObject = [segs |-> << >>, syms |-> << >>]
  /\ CtxMemSize = 0 /\ CtxHst = << >> /\ CtxDev = << >>
  /\ index = 1
  /\ KernelSymbolAddress = None
  /\ loading = "create"

Next == \/ Build /\ UNCHANGED loaderVars
        \/ create_code_object
        \/ LoaderNext /\ UNCHANGED codeVars

Spec == Init /\ [][Next]_vars

=============================================================================
