----------------------------- MODULE FastResume -----------------------------
(***************************************************************************)
(* What survives when the program or the machine stops: the pieces' data,  *)
(* which the client writes through shared memory maps, and the resume file *)
(* that says which pieces need no hash check at the next start.            *)
(*                                                                         *)
(* One data file is modelled, byte by byte: piece i occupies Size[i] bytes *)
(* from Off[i] on (in a torrent of several files, the part of the piece    *)
(* that is in this file).  A byte is right or wrong; a byte past the end   *)
(* of the file is wrong.  The kernel may write any dirty page, and the     *)
(* resume file, back at any time.  The length of the file is metadata and  *)
(* taken to be durable.  Either processes die or the power fails, any      *)
(* number of times, but not both in one behaviour.                         *)
(***************************************************************************)
EXTENDS Integers

CONSTANTS NumPieces, Off, Size, PageSize,
    Seed,          \* the -s option
    Faults,        \* what may happen: "kill", the process dies; "power", the machine
    NoFile,        \* there is no resume file
    Truncated      \* the resume file has no content

Piece == 0..(NumPieces - 1)
End(i) == Off[i] + Size[i]
Byte == UNION {Off[i]..(End(i) - 1) : i \in Piece}

ASSUME ResumeConstants ==
    /\ NumPieces \in Nat \ {0} /\ PageSize \in Nat \ {0} /\ Seed \in BOOLEAN
    /\ Faults \subseteq {"kill", "power"} /\ Faults # {}
    /\ Off \in [Piece -> Nat] /\ Size \in [Piece -> Nat \ {0}]
    /\ \A i, j \in Piece : i < j => End(i) <= Off[j]
    /\ NoFile # Truncated /\ \A P \in SUBSET Piece : P # NoFile /\ P # Truncated

VARIABLES
    fault,         \* the fault of this behaviour: one of Faults
    mem,           \* the file as the page cache has it: is each byte right?
    disk,          \* the file as the disk has it
    length,        \* the length of the file
    resume,        \* the resume file as the page cache has it
    resume_disk,   \* the resume file as the disk has it
    cksumok,       \* the pieces flagged TORRENT_PIECE_CKSUMOK
    isnew,         \* tp->isnew
    at,            \* where the program is
    piece          \* the piece being checked, unmapped or recorded

vars == <<fault, mem, disk, length, resume, resume_disk, cksumok, isnew, at, piece>>

Resume == {NoFile, Truncated} \cup SUBSET Piece

part(i) == Off[i]..(End(i) - 1)
page(b) == b \div PageSize
right(i) == \A b \in part(i) : mem[b]

\* Extend the file as torrent_mmap_create() does when it is too short.
extended(i) == IF length < End(i) THEN End(i) ELSE length

\* The bytes msync() reaches in torrent_piece_unmap(): it starts at the page
\* boundary below the piece and is given the length of the piece.
synced(i) == {b \in Byte : page(b) \in page(Off[i])..page(page(Off[i]) * PageSize + Size[i] - 1)}

\* Mutation of msync: the pages are left to the kernel.
msync_async(i) == UNCHANGED disk

msync(i) == disk' = [b \in Byte |-> IF b \in synced(i) THEN mem[b] ELSE disk[b]]

running == at \notin {"off", "stopped"}

\* main() goes on to the event loop unless there is nothing left to do.
begin(good) == at' = IF good = Piece /\ ~ Seed THEN "off" ELSE "run"

------------------------------------------------------------------------------
(* Start.                                                                   *)

\* A file without content reads as a bitfield of zeroes.
bits(f) == IF f = Truncated THEN {} ELSE f

torrent_fastresume_load ==
    /\ ~ running
    /\ isnew' = FALSE
    /\ piece' = 0
    /\ IF resume = NoFile THEN at' = "check" /\ cksumok' = {}
       ELSE cksumok' = bits(resume) /\ begin(bits(resume))
    /\ UNCHANGED <<fault, mem, disk, length, resume, resume_disk>>

\* Without a resume file every piece is mapped, checked unless some piece was
\* missing so far, and unmapped.
check ==
    /\ at = "check"
    /\ length' = extended(piece)
    /\ isnew' = (isnew \/ length < End(piece))
    /\ cksumok' = IF ~ isnew' /\ right(piece) THEN cksumok \cup {piece} ELSE cksumok
    /\ msync(piece)
    /\ IF piece + 1 < NumPieces THEN piece' = piece + 1 /\ UNCHANGED at
       ELSE piece' = 0 /\ begin(cksumok')
    /\ UNCHANGED <<fault, mem, resume, resume_disk>>

------------------------------------------------------------------------------
(* The event loop.                                                          *)

\* torrent_block_write() of a byte into a piece that is not verified.
torrent_block_write(b, ok) ==
    /\ at = "run"
    /\ \E i \in Piece \ cksumok :
         /\ b \in part(i)
         /\ length' = extended(i)
         /\ mem' = [mem EXCEPT ![b] = ok]
    /\ UNCHANGED <<fault, disk, resume, resume_disk, cksumok, isnew, at, piece>>

torrent_piece_checkhash(i) ==
    /\ at = "run" /\ i \notin cksumok /\ End(i) <= length
    /\ cksumok' = IF right(i) THEN cksumok \cup {i} ELSE cksumok
    /\ at' = "unmap" /\ piece' = i
    /\ UNCHANGED <<fault, mem, disk, length, resume, resume_disk, isnew>>

torrent_piece_unmap ==
    /\ at = "unmap"
    /\ msync(piece)
    /\ at' = IF piece \in cksumok THEN "dump" ELSE "run"
    /\ UNCHANGED <<fault, mem, length, resume, resume_disk, cksumok, isnew, piece>>

\* Mutation of sighandler: the program just exits.
sighandler_exits ==
    /\ at = "run"
    /\ at' = "stopped"
    /\ UNCHANGED <<fault, mem, disk, length, resume, resume_disk, cksumok, isnew, piece>>

\* SIGTERM and SIGINT reach the program between two events.
sighandler ==
    /\ at = "run"
    /\ at' = "terminate"
    /\ UNCHANGED <<fault, mem, disk, length, resume, resume_disk, cksumok, isnew, piece>>

\* torrent_fastresume_dump(): fopen(), then what fclose() writes.
torrent_fastresume_open ==
    /\ at \in {"dump", "terminate"}
    /\ resume' = Truncated
    /\ at' = IF at = "dump" THEN "write" ELSE "last write"
    /\ UNCHANGED <<fault, mem, disk, length, resume_disk, cksumok, isnew, piece>>

torrent_fastresume_close ==
    /\ at \in {"write", "last write"}
    /\ resume' = cksumok
    /\ IF at = "write" THEN begin(cksumok) ELSE at' = "stopped"
    /\ UNCHANGED <<fault, mem, disk, length, resume_disk, cksumok, isnew, piece>>

------------------------------------------------------------------------------
(* The environment.                                                         *)

\* The kernel writes a page back.
writeback(g) ==
    /\ disk' = [b \in Byte |-> IF page(b) = g THEN mem[b] ELSE disk[b]]
    /\ UNCHANGED <<fault, mem, length, resume, resume_disk, cksumok, isnew, at, piece>>

writeback_resume ==
    /\ resume_disk' = resume
    /\ UNCHANGED <<fault, mem, disk, length, resume, cksumok, isnew, at, piece>>

\* The process dies; the page cache does not.
killed ==
    /\ running /\ fault = "kill"
    /\ at' = "off" /\ cksumok' = {} /\ isnew' = FALSE /\ piece' = 0
    /\ UNCHANGED <<fault, mem, disk, length, resume, resume_disk>>

power_loss ==
    /\ fault = "power"
    /\ at' = "off" /\ cksumok' = {} /\ isnew' = FALSE /\ piece' = 0
    /\ mem' = disk /\ resume' = resume_disk
    /\ UNCHANGED <<fault, disk, length, resume_disk>>

------------------------------------------------------------------------------
\* The user may have some of the data, but no resume file yet.
Init ==
    /\ fault \in Faults
    /\ length \in 0..End(NumPieces - 1)
    /\ mem \in [Byte -> BOOLEAN]
    /\ \A b \in Byte : b >= length => ~ mem[b]
    /\ disk = mem
    /\ resume = NoFile /\ resume_disk = NoFile
    /\ cksumok = {} /\ isnew = FALSE /\ at = "off" /\ piece = 0

Next ==
    \/ torrent_fastresume_load
    \/ check
    \/ \E b \in Byte, ok \in BOOLEAN : torrent_block_write(b, ok)
    \/ \E i \in Piece : torrent_piece_checkhash(i)
    \/ torrent_piece_unmap
    \/ sighandler
    \/ torrent_fastresume_open
    \/ torrent_fastresume_close
    \/ \E g \in {page(b) : b \in Byte} : writeback(g)
    \/ writeback_resume
    \/ killed
    \/ power_loss

Spec == Init /\ [][Next]_vars

------------------------------------------------------------------------------
\* The variables keep their types across faults and restarts.
ResumeTypeOK ==
    /\ fault \in Faults
    /\ mem \in [Byte -> BOOLEAN] /\ disk \in [Byte -> BOOLEAN]
    /\ length \in Nat
    /\ resume \in Resume /\ resume_disk \in Resume
    /\ cksumok \in SUBSET Piece /\ isnew \in BOOLEAN /\ piece \in Piece
    /\ at \in {"off", "check", "run", "unmap", "dump", "write",
               "terminate", "last write", "stopped"}

\* What the program takes for verified is right, although the resume file is
\* believed without a hash check: wherever the process was killed, or the machine
\* lost power, the file names only pieces whose data is in the file it finds.
ResumeSound == running => \A i \in cksumok : right(i)

\* After SIGTERM or SIGINT the resume file has every verified piece, those that
\* the initial hash check found included.
CleanStop == at = "stopped" => resume = cksumok

\* torrent_piece_unmap() flushes the piece to disk: when the piece is about to be
\* recorded, all of it is there.
UnmapFlushes == at = "dump" => \A b \in part(piece) : disk[b] = mem[b]
==============================================================================
