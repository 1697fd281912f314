----------------------------- MODULE MCMachine ------------------------------
EXTENDS Machine

Load(i, c, k, d, e) == [ipi |-> i, console |-> c, keys |-> k, disk |-> d, emu |-> e]

\* IPIs; output on three threads; input past the end of the ring; the disk; the emulator; two drivers at once.
MCLoads == {Load(4, 0, 0, 0, 0), Load(0, 3, 0, 0, 0), Load(0, 2, 2, 0, 0), Load(0, 0, 0, 2, 0),
            Load(0, 0, 0, 0, 3), Load(0, 1, 0, 1, 0)}
=============================================================================
