---------------------------- MODULE LinearReader ----------------------------
(***************************************************************************)
(* What ram.c promises its callers: the loaded file is one linear sequence *)
(* of Size bytes.  A read moves a cursor by one byte, a skip moves it      *)
(* forward, a jump sets it.  Nothing here knows of banks.  The position    *)
(* Size, one past the last byte, is where the read of the last byte leaves *)
(* the cursor; only a jump moves it on from there.                         *)
(***************************************************************************)
EXTENDS Naturals

CONSTANTS
    Size,       \* number of bytes that can be addressed
    MaxSkip,    \* longest relative seek
    JumpTargets \* offsets of absolute seeks

VARIABLE pos

Init == pos = 0

Read == pos < Size /\ pos' = pos + 1

Skip(n) == pos + n < Size /\ pos' = pos + n

Jump(offset) == pos' = offset

Next ==
    \/ Read
    \/ \E n \in 0 .. MaxSkip : Skip(n)
    \/ \E offset \in JumpTargets : Jump(offset)

Spec == Init /\ [][Next]_pos

=============================================================================
