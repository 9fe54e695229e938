------------------------------ MODULE FileCopy ------------------------------
(***************************************************************************)
(* Five programs of bloque02 that copy a file: with write_all (e01),       *)
(* with writes cut to a few bytes (e02), byte by byte with system calls    *)
(* and with stdio (both e03), and with a loop of its own (ej21).  They     *)
(* differ in what they do about an interrupted call and about a close that *)
(* fails.  A call may be interrupted, read or write less than it was asked *)
(* for, or fail; the disk may be full.                                     *)
(*                                                                         *)
(* A write that takes nothing, which the loops of e01 and e02 turn into an *)
(* error, does not happen for a file.  stdio reads ahead and holds back    *)
(* what it writes until its buffer is full or the file is closed.          *)
(***************************************************************************)
EXTENDS Integers, Sequences

CONSTANTS
  Original,     \* the bytes of the source
  Old,          \* those of the destination before
  BufSize,      \* BUF_SIZE, DEFAULT_BUFFER_SIZE, stdio's buffer
  Part,         \* limited_write: 3
  MaxRoom,      \* bound: the bytes that the disk has left
  Interrupts,   \* bound: interrupted calls
  Faults        \* bound: calls that fail

Programs == {"write_all", "parts", "bytes", "stdio", "plain"}

VARIABLES
  prog,        \* the program
  same,        \* source and destination are one file
  src, dst,    \* what the files hold
  pos,         \* what has been read
  held,        \* read and not yet written
  fds,         \* of "in" and "out", the open ones
  at,          \* the call that is next, or "end"
  rc,          \* 0 or 1
  room, interrupts, faults,
  unseen       \* a flush or close of the destination that nobody looked at failed

vars == <<prog, same, src, dst, pos, held, fds, at, rc, room, interrupts, faults, unseen>>

Init ==
  /\ prog \in Programs /\ same \in BOOLEAN
  /\ same => prog \notin {"bytes", "stdio"}   \* their names are fixed
  /\ src = Original
  /\ dst = IF same THEN Original ELSE Old
  /\ pos = 0 /\ held = <<>> /\ fds = {}
  /\ at = "open_in" /\ rc = 1
  /\ room \in 0 .. MaxRoom /\ interrupts = 0 /\ faults = 0
  /\ unseen = FALSE

\* The calls that EINTR does not end.
Retries == prog \in {"write_all", "parts"}

ReadSize == IF prog = "bytes" THEN 1 ELSE BufSize

\* What one write is asked for.
WriteSize == IF prog = "parts" /\ Len(held) > Part THEN Part ELSE Len(held)

\* Whether a close of the destination that fails changes the exit status.
LooksAtClose == prog \in {"write_all", "plain"}

\* A call that fails, which is seen.
Fails ==
  /\ faults < Faults
  /\ faults' = faults + 1
  /\ at' = "close_in"
  /\ UNCHANGED <<prog, same, src, dst, pos, held, fds, rc, room, interrupts, unseen>>

\* EINTR: the loop goes on, or the call counts as failed.
Interrupted ==
  /\ interrupts < Interrupts
  /\ interrupts' = interrupts + 1
  /\ at' = IF Retries THEN at ELSE "close_in"
  /\ UNCHANGED <<prog, same, src, dst, pos, held, fds, rc, room, faults, unseen>>

OpenIn ==
  /\ at = "open_in"
  /\ \/ /\ fds' = {"in"} /\ at' = "open_out"
        /\ UNCHANGED <<prog, same, src, dst, pos, held, rc, room, interrupts, faults, unseen>>
     \/ Fails

\* O_TRUNC
OpenOut ==
  /\ at = "open_out"
  /\ \/ /\ fds' = {"in", "out"} /\ at' = "read"
        /\ dst' = <<>>
        /\ src' = IF same THEN <<>> ELSE src
        /\ UNCHANGED <<prog, same, pos, held, rc, room, interrupts, faults, unseen>>
     \/ Fails

\* The end of the file is the end of the loop.
EndOfFile ==
  /\ at = "read" /\ pos = Len(src)
  /\ rc' = 0 /\ at' = "close_in"
  /\ UNCHANGED <<prog, same, src, dst, pos, held, fds, room, interrupts, faults, unseen>>

\* read, or what fgetc reads ahead.
Read ==
  /\ at = "read"
  /\ \/ \E n \in 1 .. ReadSize :
          /\ pos + n <= Len(src)
          /\ held' = held \o SubSeq(src, pos + 1, pos + n)
          /\ pos' = pos + n
          /\ at' = IF prog = "stdio" /\ Len(held') < BufSize THEN "read" ELSE "write"
          /\ UNCHANGED <<prog, same, src, dst, fds, rc, room, interrupts, faults, unseen>>
     \/ pos < Len(src) /\ (Fails \/ Interrupted)

\* A slip of Wrote: the loop asks again for what has been written.
WroteAgain(n) == dst' = dst \o SubSeq(held, 1, n) /\ held' = IF n < Len(held) THEN held ELSE <<>>

\* A write that took n bytes.
Wrote(n) == dst' = dst \o SubSeq(held, 1, n) /\ held' = SubSeq(held, n + 1, Len(held))

\* write: all, some, or, on a full disk, an error.
Write ==
  /\ at = "write"
  /\ \/ \E n \in 1 .. WriteSize :
          /\ n <= room
          /\ Wrote(n)
          /\ room' = room - n
          /\ at' = IF held' = <<>> THEN "read" ELSE "write"
          /\ UNCHANGED <<prog, same, src, pos, fds, rc, interrupts, faults, unseen>>
     \/ /\ room = 0
        /\ at' = "close_in"
        /\ UNCHANGED <<prog, same, src, dst, pos, held, fds, rc, room, interrupts, faults, unseen>>
     \/ Fails
     \/ Interrupted

\* cleanup: the source first.  Only e01 looks at the result.
CloseIn ==
  /\ at = "close_in"
  /\ fds' = fds \ {"in"}
  /\ at' = IF "out" \in fds THEN "close_out" ELSE "end"
  /\ \/ UNCHANGED <<rc, faults>>
     \/ /\ "in" \in fds /\ faults < Faults
        /\ faults' = faults + 1
        /\ rc' = IF prog = "write_all" THEN 1 ELSE rc
  /\ UNCHANGED <<prog, same, src, dst, pos, held, room, interrupts, unseen>>

\* close of the destination.  One that fails tells that the disk did not take what
\* had been written.  fclose first writes what stdio holds.
CloseOut ==
  /\ at = "close_out"
  /\ fds' = fds \ {"out"} /\ at' = "end"
  /\ LET rest == IF prog = "stdio" THEN held ELSE <<>> IN
     \/ /\ Len(rest) <= room
        /\ dst' = dst \o rest
        /\ UNCHANGED <<rc, unseen, faults>>
     \/ /\ Len(rest) > room
        /\ dst' = dst \o SubSeq(rest, 1, room)
        /\ unseen' = TRUE
        /\ UNCHANGED <<rc, faults>>
     \/ /\ faults < Faults
        /\ faults' = faults + 1
        /\ \E n \in 0 .. Len(dst) : dst' = SubSeq(dst, 1, n)
        /\ rc' = IF LooksAtClose THEN 1 ELSE rc
        /\ unseen' = ~LooksAtClose
  /\ held' = <<>>
  /\ UNCHANGED <<prog, same, src, pos, room, interrupts>>

Ended == at = "end" /\ UNCHANGED vars

Next ==
  \/ OpenIn \/ OpenOut \/ EndOfFile \/ Read \/ Write
  \/ CloseIn \/ CloseOut \/ Ended

Spec == Init /\ [][Next]_vars

-----------------------------------------------------------------------------

\* d is how the source begins.
BeginsOriginal(d) == Len(d) <= Len(Original) /\ d = SubSeq(Original, 1, Len(d))

\* However calls are cut short or interrupted, the destination holds a beginning
\* of the source and nothing twice; a program that reports success has copied all
\* of it, unless what failed was the last flush or close and the program did not
\* look; an interruption alone never fails a program that retries; a source that
\* cannot be opened leaves the destination as it was; every descriptor is closed.
\* (Where source and destination are one file, opening it empties it.)
CopyIsHonest ==
  /\ "out" \notin fds /\ at \notin {"close_out", "end"} => dst = IF same THEN Original ELSE Old
  /\ ~same /\ "out" \in fds => BeginsOriginal(dst)
  /\ at = "end" =>
       /\ fds = {}
       /\ ~same /\ rc = 0 => dst = Original \/ (unseen /\ BeginsOriginal(dst))
       /\ unseen => ~LooksAtClose
       /\ rc = 1 /\ Retries => faults > 0 \/ room = 0
=============================================================================
