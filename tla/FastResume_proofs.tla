-------------------------- MODULE FastResume_proofs --------------------------
(* The resume file never claims a piece whose data is not there, for any      *)
(* number of pieces and any page size.                                        *)
EXTENDS FastResume, TLAPS

\* Every piece starts on a page boundary, as in a torrent of one file whose piece
\* length is a multiple of the page size.
Aligned == \A i \in Piece : page(Off[i]) * PageSize = Off[i]

\* The pieces a resume file claims.
claimed(f) == IF f \in {NoFile, Truncated} THEN {} ELSE f

on_disk(i) == \A b \in part(i) : disk[b]

------------------------------------------------------------------------------
(* The inductive invariant.                                                   *)

\* With the page cache: what is claimed is right, and stays so because a running
\* program takes it for verified and does not write it.
CacheInv ==
    /\ \A i \in claimed(resume) : right(i)
    /\ running => (\A i \in cksumok : right(i)) /\ claimed(resume) \subseteq cksumok
    /\ at = "check" => resume = NoFile
    /\ resume = NoFile => resume_disk = NoFile

\* Without it: the same on disk, except for a verified piece that is yet to be
\* unmapped.
DiskInv ==
    /\ \A i \in claimed(resume) \cup claimed(resume_disk) : on_disk(i)
    /\ running => /\ claimed(resume_disk) \subseteq cksumok
                  /\ \A i \in cksumok : on_disk(i) \/ (at = "unmap" /\ i = piece)
    /\ ~ running => claimed(resume_disk) \subseteq claimed(resume)

RInv == ResumeTypeOK /\ CacheInv /\ (fault = "power" => DiskInv) /\ CleanStop

------------------------------------------------------------------------------
(* Arithmetic of pages and pieces.                                            *)

\* A later byte is in no earlier page.
LEMMA PageMonotone ==
    ASSUME NEW x \in Nat, NEW y \in Nat, x <= y
    PROVE  page(x) \in Nat /\ page(x) <= page(y)
<1> DEFINE n == PageSize
           q == x \div n
           r == y \div n
<1>1. n \in Nat /\ n > 0
  BY ResumeConstants
<1>2. q \in Nat /\ r \in Nat /\ n * q <= x /\ y < n * (r + 1)
  BY <1>1
<1> HIDE DEF n, q, r
<1>3. ASSUME r < q PROVE FALSE
  <2>1. r + 1 <= q
    BY <1>2, <1>3
  <2>2. n * (r + 1) <= n * q
    BY <1>1, <1>2, <2>1
  <2> QED
    BY <1>1, <1>2, <2>2
<1> QED
  BY <1>2, <1>3 DEF page, n, q, r

\* msync() reaches all of an aligned piece.
LEMMA SyncedAll ==
    ASSUME Aligned, NEW i \in Piece
    PROVE  part(i) \subseteq synced(i)
<1> SUFFICES ASSUME NEW b \in part(i) PROVE b \in synced(i)
  OBVIOUS
<1>1. Off[i] \in Nat /\ Size[i] \in Nat /\ Size[i] > 0
  BY ResumeConstants
<1>2. b \in Nat /\ Off[i] <= b /\ b <= Off[i] + Size[i] - 1 /\ Off[i] + Size[i] - 1 \in Nat
  BY <1>1 DEF part, End
<1>3. page(Off[i]) \in Nat /\ page(b) \in Nat
      /\ page(Off[i]) <= page(b) /\ page(b) <= page(Off[i] + Size[i] - 1)
      /\ page(Off[i] + Size[i] - 1) \in Nat
  BY <1>1, <1>2, PageMonotone
<1>4. page(b) \in page(Off[i])..page(page(Off[i]) * PageSize + Size[i] - 1)
  BY <1>3 DEF Aligned
<1>5. b \in Byte
  BY DEF Byte, part
<1> QED
  BY <1>4, <1>5 DEF synced

\* Pieces do not overlap.
LEMMA Disjoint ==
    ASSUME NEW i \in Piece, NEW j \in Piece, i # j, NEW b \in part(i)
    PROVE  b \notin part(j)
<1>1. i \in Int /\ j \in Int /\ (i < j \/ j < i)
  BY ResumeConstants DEF Piece
<1>2. Off[i] \in Nat /\ Off[j] \in Nat /\ Size[i] \in Nat /\ Size[j] \in Nat
  BY ResumeConstants
<1>3. End(i) <= Off[j] \/ End(j) <= Off[i]
  BY <1>1, ResumeConstants
<1> QED
  BY <1>2, <1>3 DEF part, End

\* Flushing pages spoils no piece that is right in the page cache.
LEMMA FlushKeeps ==
    ASSUME ResumeTypeOK, NEW i \in Piece, right(i), on_disk(i), NEW B \in SUBSET Byte,
           disk' = [b \in Byte |-> IF b \in B THEN mem[b] ELSE disk[b]]
    PROVE  on_disk(i)'
<1>1. part(i) \subseteq Byte
  BY DEF part, Byte
<1> QED
  BY <1>1 DEF right, on_disk, part, End

\* A resume file claims pieces, and the two other values claim none.
LEMMA Claims ==
    /\ \A f \in Resume : claimed(f) \subseteq Piece
    /\ \A P \in SUBSET Piece : P \in Resume /\ claimed(P) = P
    /\ claimed(NoFile) = {} /\ claimed(Truncated) = {}
    /\ \A f \in Resume : f # NoFile => claimed(f) = bits(f) /\ bits(f) \in SUBSET Piece
    /\ NoFile # Truncated /\ NoFile \in Resume /\ Truncated \in Resume
  BY ResumeConstants DEF Resume, claimed, bits

------------------------------------------------------------------------------
(* One lemma per action, or per group of actions that change the same things. *)

\* A start believes the resume file, or checks the pieces if there is none.
LEMMA LoadInv ==
    ASSUME RInv, torrent_fastresume_load
    PROVE  RInv'
<1> USE DEF RInv
<1>1. /\ ~ running /\ isnew' = FALSE /\ piece' = 0
      /\ UNCHANGED <<fault, mem, disk, length, resume, resume_disk>>
  BY DEF torrent_fastresume_load
<1>2. \/ resume = NoFile /\ at' = "check" /\ cksumok' = {}
      \/ resume # NoFile /\ cksumok' = claimed(resume) /\ at' \in {"off", "run"}
  BY Claims DEF torrent_fastresume_load, begin, ResumeTypeOK
<1>3. 0 \in Piece
  BY ResumeConstants DEF Piece
<1>4. ResumeTypeOK'
  BY <1>1, <1>2, <1>3, Claims DEF ResumeTypeOK
<1>5. CacheInv'
  BY <1>1, <1>2, Claims DEF CacheInv, running, right
<1>6. fault' = "power" => DiskInv'
  BY <1>1, <1>2, Claims DEF DiskInv, CacheInv, running, on_disk
<1>7. CleanStop'
  BY <1>2 DEF CleanStop
<1> QED
  BY <1>4, <1>5, <1>6, <1>7

\* The initial hash check flushes the piece it finds right.
LEMMA CheckInv ==
    ASSUME "power" \in Faults => Aligned, RInv, check
    PROVE  RInv'
<1> USE DEF RInv
<1>1. /\ at = "check" /\ piece \in Piece /\ resume = NoFile /\ resume_disk = NoFile /\ running
      /\ UNCHANGED <<fault, mem, resume, resume_disk>>
  BY DEF check, CacheInv, ResumeTypeOK, running
<1>2. cksumok' = cksumok \/ (cksumok' = cksumok \cup {piece} /\ right(piece))
  BY DEF check
<1>3. at' \in {"check", "off", "run"} /\ piece' \in Piece
  <2>1. piece + 1 < NumPieces => piece + 1 \in Piece
    BY <1>1, ResumeConstants DEF Piece
  <2>2. 0 \in Piece
    BY ResumeConstants DEF Piece
  <2> QED
    BY <1>1, <2>1, <2>2 DEF check, begin
<1>4. length' \in Nat /\ isnew' \in BOOLEAN
  <2>1. End(piece) \in Nat
    BY <1>1, ResumeConstants DEF End
  <2> QED
    BY <2>1 DEF check, extended, ResumeTypeOK
<1>5. disk' = [b \in Byte |-> IF b \in synced(piece) THEN mem[b] ELSE disk[b]]
  BY DEF check, msync
<1>6. ResumeTypeOK'
  BY <1>1, <1>2, <1>3, <1>4, <1>5 DEF ResumeTypeOK
<1>7. CacheInv'
  BY <1>1, <1>2, Claims DEF CacheInv, running, right
<1>8. ASSUME fault = "power" PROVE DiskInv'
  <2>1. synced(piece) \in SUBSET Byte
    BY DEF synced
  <2>2. ASSUME NEW i \in cksumok' PROVE on_disk(i)'
    <3>1. CASE i \in cksumok
      <4>1. i \in Piece /\ right(i) /\ on_disk(i)
        BY <1>1, <1>8, <3>1 DEF ResumeTypeOK, CacheInv, DiskInv
      <4> QED
        BY <1>5, <2>1, <4>1, FlushKeeps
    <3>2. CASE i \notin cksumok
      <4>1. i = piece /\ right(i)
        BY <1>2, <2>2, <3>2
      <4>2. part(i) \subseteq synced(i)
        BY <1>1, <1>8, <4>1, SyncedAll DEF ResumeTypeOK
      <4>3. \A b \in part(i) : b \in Byte /\ b \in synced(piece)
        BY <2>1, <4>1, <4>2
      <4> QED
        BY <1>5, <4>1, <4>3 DEF right, on_disk, part, End
    <3> QED
      BY <3>1, <3>2
  <2>3. claimed(resume)' = {} /\ claimed(resume_disk)' = {}
    BY <1>1, Claims DEF claimed
  <2> QED
    BY <2>2, <2>3 DEF DiskInv
<1>9. CleanStop'
  BY <1>3 DEF CleanStop
<1> QED
  BY <1>1, <1>6, <1>7, <1>8, <1>9

\* A block is written only where no verified piece is.
LEMMA WriteInv ==
    ASSUME RInv, NEW b \in Byte, NEW ok \in BOOLEAN, torrent_block_write(b, ok)
    PROVE  RInv'
<1> USE DEF RInv
<1>1. PICK i \in Piece \ cksumok :
        b \in part(i) /\ length' = extended(i) /\ mem' = [mem EXCEPT ![b] = ok]
  BY DEF torrent_block_write
<1>2. /\ at = "run" /\ running
      /\ UNCHANGED <<fault, disk, resume, resume_disk, cksumok, isnew, at, piece>>
  BY DEF torrent_block_write, running
<1>3. ResumeTypeOK'
  <2>1. End(i) \in Nat /\ extended(i) \in Nat
    <3>1. End(i) \in Nat
      BY ResumeConstants DEF End
    <3> QED
      BY <3>1 DEF extended, ResumeTypeOK
  <2> QED
    BY <1>1, <1>2, <2>1 DEF ResumeTypeOK
<1>4. ASSUME NEW j \in cksumok PROVE right(j)'
  <2>1. j \in Piece /\ right(j) /\ j # i
    BY <1>1, <1>2 DEF ResumeTypeOK, CacheInv
  <2>2. b \notin part(j)
    BY <1>1, <2>1, Disjoint
  <2>3. \A c \in part(j) : c \in Byte /\ mem[c]
    BY <2>1 DEF right, part, Byte
  <2> QED
    BY <1>1, <2>2, <2>3 DEF right, part, End, ResumeTypeOK
<1>5. CacheInv'
  BY <1>2, <1>4 DEF CacheInv, running
<1>6. fault' = "power" => DiskInv'
  BY <1>2 DEF DiskInv, running, on_disk
<1>7. CleanStop'
  BY <1>2 DEF CleanStop
<1> QED
  BY <1>3, <1>5, <1>6, <1>7

\* A piece that passes the hash check is yet to be flushed; the rest is as before.
LEMMA CheckhashInv ==
    ASSUME RInv, NEW i \in Piece, torrent_piece_checkhash(i)
    PROVE  RInv'
<1> USE DEF RInv
<1>1. /\ at = "run" /\ at' = "unmap" /\ piece' = i /\ running
      /\ UNCHANGED <<fault, mem, disk, length, resume, resume_disk, isnew>>
  BY DEF torrent_piece_checkhash, running
<1>2. cksumok' = cksumok \/ (cksumok' = cksumok \cup {i} /\ right(i))
  BY DEF torrent_piece_checkhash
<1>3. ResumeTypeOK'
  BY <1>1, <1>2 DEF ResumeTypeOK
<1>4. CacheInv'
  BY <1>1, <1>2 DEF CacheInv, running, right
<1>5. fault' = "power" => DiskInv'
  BY <1>1, <1>2 DEF DiskInv, running, on_disk
<1>6. CleanStop'
  BY <1>1 DEF CleanStop
<1> QED
  BY <1>3, <1>4, <1>5, <1>6

\* torrent_piece_unmap() flushes the piece before the dump that may claim it.
LEMMA UnmapInv ==
    ASSUME "power" \in Faults => Aligned, RInv, torrent_piece_unmap
    PROVE  RInv'
<1> USE DEF RInv
<1>1. /\ at = "unmap" /\ at' \in {"dump", "run"} /\ piece \in Piece /\ running
      /\ UNCHANGED <<fault, mem, length, resume, resume_disk, cksumok, isnew, piece>>
  BY DEF torrent_piece_unmap, ResumeTypeOK, running
<1>2. disk' = [b \in Byte |-> IF b \in synced(piece) THEN mem[b] ELSE disk[b]]
  BY DEF torrent_piece_unmap, msync
<1>3. ResumeTypeOK'
  BY <1>1, <1>2 DEF ResumeTypeOK
<1>4. CacheInv'
  BY <1>1 DEF CacheInv, running, right
<1>5. ASSUME fault = "power" PROVE DiskInv'
  <2>1. synced(piece) \in SUBSET Byte
    BY DEF synced
  <2>2. ASSUME NEW i \in cksumok PROVE on_disk(i)'
    <3>1. i \in Piece /\ right(i)
      BY <1>1 DEF ResumeTypeOK, CacheInv
    <3>2. CASE on_disk(i)
      BY <1>2, <2>1, <3>1, <3>2, FlushKeeps
    <3>3. CASE ~ on_disk(i)
      <4>1. i = piece
        BY <1>1, <1>5, <3>3 DEF DiskInv
      <4>2. part(i) \subseteq synced(i)
        BY <1>5, <3>1, SyncedAll DEF ResumeTypeOK
      <4>3. \A b \in part(i) : b \in Byte /\ b \in synced(piece)
        BY <2>1, <4>1, <4>2
      <4> QED
        BY <1>2, <3>1, <4>3 DEF right, on_disk, part, End
    <3> QED
      BY <3>2, <3>3
  <2>3. claimed(resume) \cup claimed(resume_disk) \subseteq cksumok
    BY <1>1, <1>5 DEF CacheInv, DiskInv
  <2>4. claimed(resume)' = claimed(resume) /\ claimed(resume_disk)' = claimed(resume_disk)
    BY <1>1 DEF claimed
  <2>5. running' /\ cksumok' = cksumok
    BY <1>1 DEF running
  <2> QED
    BY <2>2, <2>3, <2>4, <2>5 DEF DiskInv
<1>6. CleanStop'
  BY <1>1 DEF CleanStop
<1> QED
  BY <1>1, <1>3, <1>4, <1>5, <1>6

\* A dump claims what is verified, which is on disk by then.
LEMMA DumpInv ==
    ASSUME RInv, sighandler \/ torrent_fastresume_open \/ torrent_fastresume_close
    PROVE  RInv'
<1> USE DEF RInv
<1>1. /\ running /\ at # "check" /\ at # "unmap"
      /\ at' \in {"terminate", "write", "last write", "off", "run", "stopped"}
      /\ UNCHANGED <<fault, mem, disk, length, resume_disk, cksumok, isnew, piece>>
  BY DEF sighandler, torrent_fastresume_open, torrent_fastresume_close, begin, running
<1>2. cksumok \in SUBSET Piece /\ cksumok \in Resume /\ claimed(cksumok) = cksumok /\ cksumok # NoFile
  BY Claims, ResumeConstants DEF ResumeTypeOK
<1>3. \/ resume' = resume /\ at' = "terminate"
      \/ resume' = Truncated /\ at' \in {"write", "last write"}
      \/ resume' = cksumok
  BY DEF sighandler, torrent_fastresume_open, torrent_fastresume_close
<1>4. /\ resume' \in Resume /\ claimed(resume') \subseteq cksumok
      /\ at' \in {"off", "run", "stopped"} => resume' = cksumok
      /\ resume' = NoFile => resume = NoFile
  BY <1>1, <1>2, <1>3, Claims DEF ResumeTypeOK, CacheInv
<1>5. ResumeTypeOK'
  BY <1>1, <1>4 DEF ResumeTypeOK
<1>6. CacheInv'
  BY <1>1, <1>4 DEF CacheInv, running, right
<1>7. ASSUME fault = "power" PROVE DiskInv'
  <2>1. claimed(resume_disk) \subseteq cksumok /\ \A i \in cksumok : on_disk(i)
    BY <1>1, <1>7 DEF DiskInv
  <2>2. ~ running' => claimed(resume') = cksumok
    BY <1>1, <1>2, <1>4 DEF running
  <2> QED
    BY <1>1, <1>4, <2>1, <2>2 DEF DiskInv, on_disk
<1>8. CleanStop'
  BY <1>1, <1>4 DEF CleanStop
<1> QED
  BY <1>1, <1>5, <1>6, <1>7, <1>8

\* Write-back only makes the disk agree with the page cache.
LEMMA WritebackInv ==
    ASSUME RInv, (\E g \in {page(b) : b \in Byte} : writeback(g)) \/ writeback_resume
    PROVE  RInv'
<1> USE DEF RInv
<1>1. UNCHANGED <<fault, mem, length, resume, cksumok, isnew, at, piece>>
  BY DEF writeback, writeback_resume
<1>2. CleanStop'
  BY <1>1 DEF CleanStop
<1>3. CASE writeback_resume
  <2>1. resume_disk' = resume /\ disk' = disk
    BY <1>3 DEF writeback_resume
  <2>2. ResumeTypeOK' /\ CacheInv'
    BY <1>1, <2>1 DEF ResumeTypeOK, CacheInv, running, right
  <2>3. fault' = "power" => DiskInv'
    BY <1>1, <2>1 DEF DiskInv, CacheInv, running, on_disk
  <2> QED
    BY <1>2, <2>2, <2>3
<1>4. CASE \E g \in {page(b) : b \in Byte} : writeback(g)
  <2>1. PICK g : writeback(g)
    BY <1>4
  <2> DEFINE B == {b \in Byte : page(b) = g}
  <2>2. B \in SUBSET Byte /\ resume_disk' = resume_disk
    BY <2>1 DEF writeback
  <2>3. disk' = [b \in Byte |-> IF b \in B THEN mem[b] ELSE disk[b]]
    BY <2>1 DEF writeback
  <2> HIDE DEF B
  <2>4. ResumeTypeOK' /\ CacheInv'
    BY <1>1, <2>2, <2>3 DEF ResumeTypeOK, CacheInv, running, right
  <2>5. ASSUME fault = "power" PROVE DiskInv'
    <3>1. ASSUME NEW i \in Piece, right(i), on_disk(i) PROVE on_disk(i)'
      BY <2>2, <2>3, <3>1, FlushKeeps
    <3>2. \A i \in claimed(resume) \cup claimed(resume_disk) : i \in Piece /\ on_disk(i)
      BY <2>5, Claims DEF DiskInv, ResumeTypeOK
    <3>3. \A i \in claimed(resume) \cup claimed(resume_disk) : right(i)
      BY <2>5 DEF DiskInv, CacheInv
    <3>4. running => \A i \in cksumok : i \in Piece /\ right(i)
      BY DEF CacheInv, ResumeTypeOK
    <3>5. claimed(resume)' = claimed(resume) /\ claimed(resume_disk)' = claimed(resume_disk)
      BY <1>1, <2>2 DEF claimed
    <3>6. (running' <=> running) /\ cksumok' = cksumok /\ at' = at /\ piece' = piece
      BY <1>1 DEF running
    <3> QED
      BY <2>5, <3>1, <3>2, <3>3, <3>4, <3>5, <3>6 DEF DiskInv
  <2> QED
    BY <1>1, <1>2, <2>4, <2>5
<1> QED
  BY <1>3, <1>4

\* After a fault what is claimed is right in the file that is left.
LEMMA FaultInv ==
    ASSUME RInv, killed \/ power_loss
    PROVE  RInv'
<1> USE DEF RInv
<1>1. /\ at' = "off" /\ cksumok' = {} /\ isnew' = FALSE /\ piece' = 0
      /\ UNCHANGED <<fault, disk, length, resume_disk>>
  BY DEF killed, power_loss
<1>2. 0 \in Piece
  BY ResumeConstants DEF Piece
<1>3. CASE killed
  <2>1. fault = "kill" /\ UNCHANGED <<mem, resume>>
    BY <1>3 DEF killed
  <2>2. ResumeTypeOK' /\ CacheInv' /\ CleanStop'
    BY <1>1, <1>2, <2>1 DEF ResumeTypeOK, CacheInv, CleanStop, running, right
  <2> QED
    BY <1>1, <2>1, <2>2
<1>4. CASE power_loss
  <2>1. fault = "power" /\ mem' = disk /\ resume' = resume_disk
    BY <1>4 DEF power_loss
  <2>2. ResumeTypeOK' /\ CleanStop'
    BY <1>1, <1>2, <2>1 DEF ResumeTypeOK, CleanStop
  <2>3. CacheInv' /\ DiskInv'
    BY <1>1, <2>1 DEF CacheInv, DiskInv, running, right, on_disk
  <2> QED
    BY <2>2, <2>3
<1> QED
  BY <1>3, <1>4

------------------------------------------------------------------------------
\* At first there is no resume file.
LEMMA ResumeInit == Init => RInv
<1> SUFFICES ASSUME Init PROVE RInv
  OBVIOUS
<1>1. 0 \in Piece /\ End(NumPieces - 1) \in Nat
  BY ResumeConstants DEF Piece, End
<1>2. ResumeTypeOK
  <2>1. length \in Nat
    BY <1>1 DEF Init
  <2>2. /\ fault \in Faults /\ mem \in [Byte -> BOOLEAN] /\ disk = mem
        /\ resume = NoFile /\ resume_disk = NoFile
        /\ cksumok = {} /\ isnew = FALSE /\ at = "off" /\ piece = 0
    BY DEF Init
  <2> QED
    BY <1>1, <2>1, <2>2, Claims DEF ResumeTypeOK
<1>3. CacheInv /\ DiskInv /\ CleanStop
  BY Claims DEF Init, CacheInv, DiskInv, CleanStop, running
<1> QED
  BY <1>2, <1>3 DEF RInv

\* Every step preserves the invariant.
LEMMA ResumeNext ==
    ASSUME "power" \in Faults => Aligned
    PROVE  RInv /\ [Next]_vars => RInv'
<1> SUFFICES ASSUME RInv, [Next]_vars PROVE RInv'
  OBVIOUS
<1>1. CASE UNCHANGED vars
  BY <1>1 DEF vars, RInv, ResumeTypeOK, CacheInv, DiskInv, CleanStop, running, right, on_disk
<1>2. CASE Next
  BY <1>2, LoadInv, CheckInv, WriteInv, CheckhashInv, UnmapInv, DumpInv, WritebackInv, FaultInv DEF Next
<1> QED
  BY <1>1, <1>2

\* The invariant holds throughout, if a power failure is met only where every
\* piece starts on a page boundary.
LEMMA ResumeInvariant ==
    ASSUME "power" \in Faults => Aligned
    PROVE  Spec => []RInv
<1>1. Init => RInv
  BY ResumeInit
<1>2. RInv /\ [Next]_vars => RInv'
  BY ResumeNext
<1> QED
  BY <1>1, <1>2, PTL DEF Spec

\* Every variable keeps its type across any number of faults and restarts.
THEOREM ResumeTypes ==
    ASSUME "power" \in Faults => Aligned
    PROVE  Spec => []ResumeTypeOK
<1>1. RInv => ResumeTypeOK
  BY DEF RInv
<1> QED
  BY <1>1, ResumeInvariant, PTL

\* What a start takes for verified from the resume file is right, wherever the
\* process was killed, for every layout of the pieces; and wherever the power
\* failed, if every piece starts on a page boundary.
THEOREM ResumeSafe ==
    ASSUME "power" \in Faults => Aligned
    PROVE  Spec => []ResumeSound
<1>1. RInv => ResumeSound
  BY DEF RInv, CacheInv, ResumeSound
<1> QED
  BY <1>1, ResumeInvariant, PTL

\* A clean stop records every verified piece, so that the next start hashes
\* none of them again.
THEOREM ResumeCleanStop ==
    ASSUME "power" \in Faults => Aligned
    PROVE  Spec => []CleanStop
<1>1. RInv => CleanStop
  BY DEF RInv
<1> QED
  BY <1>1, ResumeInvariant, PTL
==============================================================================
