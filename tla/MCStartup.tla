------------------------------ MODULE MCStartup ------------------------------
(* Machines with one bank on either side, as get_mem_topology describes    *)
(* them, and with more on one of them; and doorbells in two pages.         *)
EXTENDS StartupProps

MCTopologies == [cpuBanks : 1 .. 2, gpuBanks : 1 .. 2, caches : 0 .. 1]

MCDoorbells == {1, 3, 6}

=============================================================================
