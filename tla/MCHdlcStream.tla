---------------------------- MODULE MCHdlcStream ----------------------------
(***************************************************************************)
(* HdlcStream with few, awkward payloads: octets that must be escaped, one *)
(* that looks like an escaped flag, a frame that is not Spinel, one of a   *)
(* header alone, one of an unknown command and one whose command takes two *)
(* octets.                                                                 *)
(***************************************************************************)
EXTENDS HdlcStream

Tricky == <<129, 6, 126, 125>>       \* a flag and an escape in the data
Looks == <<129, 6, 94, 93>>          \* what those look like once escaped
Alien == <<65, 6, 17>>               \* no Spinel header
Short == <<130>>                     \* a header alone
Unknown == <<131, 99>>               \* a command that CommandID does not define
Padded == <<132, 134, 0>>            \* the command 6, with a continuation bit
Awkward == {Tricky, Looks, Alien, Short, Unknown, Padded}
KnownCommands == 0 .. 23             \* of those in the payloads
PoisonFrames == {Looks}
Disturbances == {Flag, Escape, 94, 129}
=============================================================================
