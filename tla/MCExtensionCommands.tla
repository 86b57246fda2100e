------------------------- MODULE MCExtensionCommands -------------------------
(* Small instances of ExtensionCommands for TLC. *)
EXTENDS ExtensionCommands, TLC

\* Session ids are interchangeable, and so are command ids.
MCSymmetry == Permutations(Sessions) \cup Permutations(Commands)
=============================================================================
