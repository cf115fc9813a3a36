-------------------------- MODULE MCConsoleSession --------------------------
EXTENDS ConsoleSession, TLC

SlotSymmetry == Permutations(Slots)
=============================================================================
