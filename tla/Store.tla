------------------------------- MODULE Store --------------------------------
(***************************************************************************)
(* The data store of a torrent of several files: which bytes of which      *)
(* files make up a piece, the maps through which pieces are read and       *)
(* written, the files' sizes, and the descriptors the maps keep open.      *)
(*                                                                         *)
(* A byte is named by its place, a file and an offset, and no content is   *)
(* modelled: reading and writing a block is known from the places its      *)
(* bytes come from and go to.                                              *)
(***************************************************************************)
EXTENDS Integers, Sequences, SequencesExt, Functions, FiniteSets, FiniteSetsExt

CONSTANTS
    Torrents,          \* the torrents: type, file lengths and piece length
    MOD                \* 2^32, where u_int32_t wraps around

ASSUME StoreConstants ==
    /\ MOD \in Nat \ {0}
    /\ \A t \in Torrents : /\ t.type \in {"SINGLEFILE", "MULTIFILE"}
                           /\ t.files # <<>> /\ Range(t.files) \subseteq Nat
                           /\ t.type = "SINGLEFILE" => Len(t.files) = 1
                           /\ t.piece_length \in 1..(MOD - 1)

VARIABLES
    tp,                \* the torrent, fixed
    mmaps,             \* tpp->mmaps of each piece, in order
    len,               \* tpp->len of each piece
    mapped,            \* the pieces with TORRENT_PIECE_MAPPED
    size,              \* the size of each file on disk
    isnew,             \* tp->isnew
    fd,                \* the files that are open
    refs,              \* tfp->refs of each file
    crashed            \* torrent_piece_map() looked for a file after the last

vars == <<tp, mmaps, len, mapped, size, isnew, fd, refs, crashed>>

total(t) == SumFunction(t.files)
num_pieces(t) == (total(t) + t.piece_length - 1) \div t.piece_length
Piece(t) == 0..(num_pieces(t) - 1)
File(t) == DOMAIN t.files

\* torrent_pieces_create(): the last piece is what is left, in arithmetic of
\* u_int32_t throughout.
piece_len(t, i) ==
    IF i < num_pieces(t) - 1 THEN t.piece_length
    ELSE (total(t) - (((num_pieces(t) - 1) * t.piece_length) % MOD)) % MOD

------------------------------------------------------------------------------
(* torrent_piece_map(): which parts of which files a piece is mapped to.    *)

\* Mutation of add_map: the length of the piece is not summed up.
add_map_uncounted(s, k, off, n) ==
    [s EXCEPT !.maps = Append(@, [tfp |-> k, off |-> off, len |-> n]), !.len = @ - n]

\* The part of file k from off on, n bytes of it, is mapped next.
add_map(s, k, off, n) ==
    [s EXCEPT !.maps = Append(@, [tfp |-> k, off |-> off, len |-> n]),
              !.done = @ + n, !.len = @ - n]

\* The piece begins in file k and goes on in the next one.
map_two(t, s, k) ==
    LET s1 == [add_map(s, k, s.off, t.files[k] - s.off) EXCEPT !.off = @ + 1]
    IN  IF k = Len(t.files) THEN [s1 EXCEPT !.stop = TRUE, !.crash = TRUE]
        ELSE IF t.files[k + 1] < s1.len
        THEN IF t.files[k + 1] = 0 THEN s1
             ELSE [add_map(s1, k + 1, 0, t.files[k + 1]) EXCEPT !.off = 0, !.skip = TRUE]
        ELSE [add_map(s1, k + 1, 0, s1.len) EXCEPT !.stop = TRUE]

\* One turn of the loop over the files.
map_file(t, s, k) ==
    LET length == t.files[k]
    IN  CASE s.stop -> s
          [] s.skip -> [s EXCEPT !.skip = FALSE]
          [] OTHER ->
             CASE s.off > length -> [s EXCEPT !.off = @ - length]
               [] s.off <= length /\ length < s.len /\ s.done < s.len ->
                     IF length = s.off THEN s
                     ELSE [add_map(s, k, s.off, length - s.off) EXCEPT !.off = 0]
               [] s.off <= length /\ ~ (length < s.len /\ s.done < s.len) ->
                     IF s.off + s.len > length
                     THEN IF length = s.off THEN [s EXCEPT !.off = 0] ELSE map_two(t, s, k)
                     ELSE IF s.off < length /\ s.len # 0
                     THEN [add_map(s, k, s.off, s.len) EXCEPT !.stop = TRUE]
                     ELSE s

\* What piece i of length n is mapped to: its maps, their total length, and
\* whether the loop went past the last file.
map_piece(t, i, n) ==
    IF t.type = "SINGLEFILE"
    THEN [done |-> n, maps |-> <<[tfp |-> 1, off |-> i * t.piece_length, len |-> n]>>, crash |-> FALSE]
    ELSE FoldLeft(LAMBDA s, k : map_file(t, s, k),
                  [off |-> i * t.piece_length, len |-> n, done |-> 0, maps |-> <<>>,
                   stop |-> FALSE, skip |-> FALSE, crash |-> FALSE],
                  [k \in File(t) |-> k])

------------------------------------------------------------------------------
(* Blocks: the place of each byte that is read or written.                  *)

\* The places of bytes a, ..., a + n - 1 of a map, counted from 0.
part(m, a, n) == [b \in 1..n |-> <<m.tfp, m.off + a + b - 1>>]

\* Mutation of write_map: the maps before the block do not count.
write_map_base(s, m, off, n) ==
    LET a == off - s.base
        room == m.len - a
    IN  CASE s.left = 0 -> s
          [] 0 < s.left /\ s.left < n ->
                LET k == IF s.left > m.len THEN m.len ELSE s.left
                IN  [s EXCEPT !.places = @ \o part(m, 0, k), !.left = @ - k]
          [] s.left = n /\ s.sum + m.len < off -> [s EXCEPT !.sum = @ + m.len]
          [] s.left = n /\ s.sum + m.len >= off ->
                LET k == IF n > room THEN room ELSE n
                IN  [s EXCEPT !.sum = @ + m.len, !.base = off,
                              !.places = @ \o part(m, a, k), !.left = @ - k]

\* One turn of torrent_block_write()'s loop: in the first map that the block
\* reaches the bytes go behind the offset, in those after it to the beginning.
write_map(s, m, off, n) ==
    LET a == off - s.base
        room == m.len - a
    IN  CASE s.left = 0 -> s
          [] 0 < s.left /\ s.left < n ->
                LET k == IF s.left > m.len THEN m.len ELSE s.left
                IN  [s EXCEPT !.places = @ \o part(m, 0, k), !.left = @ - k]
          [] s.left = n /\ s.sum + m.len < off ->
                [s EXCEPT !.sum = @ + m.len, !.base = @ + m.len]
          [] s.left = n /\ s.sum + m.len >= off ->
                LET k == IF n > room THEN room ELSE n
                IN  [s EXCEPT !.sum = @ + m.len, !.base = off,
                              !.places = @ \o part(m, a, k), !.left = @ - k]

\* One turn of torrent_block_read()'s loop.
read_map(s, m, off) ==
    LET a == off - s.base
        room == m.len - a
        k == IF room < s.left THEN room ELSE s.left
    IN  CASE s.left = 0 -> s
          [] s.left > 0 /\ s.sum + m.len < off ->
                [s EXCEPT !.sum = @ + m.len, !.base = @ + m.len]
          [] s.left > 0 /\ s.sum + m.len >= off ->
                [s EXCEPT !.sum = @ + m.len, !.base = off,
                          !.places = @ \o part(m, a, k), !.left = @ - k]

start(n) == [sum |-> 0, base |-> 0, left |-> n, places |-> <<>>]

torrent_block_write(maps, off, n) ==
    FoldLeft(LAMBDA s, m : write_map(s, m, off, n), start(n), maps).places

torrent_block_read(maps, off, n) ==
    FoldLeft(LAMBDA s, m : read_map(s, m, off), start(n), maps).places

------------------------------------------------------------------------------
(* Mapping and unmapping.                                                   *)

\* How many of the maps are of file k.
maps_of(maps, k) == Cardinality({j \in DOMAIN maps : maps[j].tfp = k})

\* Mutation of grown: the offset of the map is forgotten.
grown_len(maps, k) ==
    LET ends == {maps[j].len : j \in {j \in DOMAIN maps : maps[j].tfp = k}}
    IN  Max(ends \cup {size[k]})

\* torrent_mmap_create() extends the file to the end of the map.
grown(maps, k) ==
    LET ends == {maps[j].off + maps[j].len : j \in {j \in DOMAIN maps : maps[j].tfp = k}}
    IN  Max(ends \cup {size[k]})

\* Piece i is not mapped and is to be read or written.  Its files are opened,
\* unless they are open.
torrent_piece_map(i) ==
    LET m == map_piece(tp, i, len[i])
    IN  /\ ~ crashed /\ i \notin mapped
        /\ IF m.crash THEN crashed' = TRUE /\ UNCHANGED <<mmaps, len, mapped, size, isnew, fd, refs>>
           ELSE /\ mmaps' = [mmaps EXCEPT ![i] = m.maps]
                /\ len' = [len EXCEPT ![i] = m.done]
                /\ mapped' = mapped \cup {i}
                /\ size' = [k \in File(tp) |-> grown(m.maps, k)]
                /\ isnew' = (isnew \/ size' # size)
                /\ fd' = fd \cup {m.maps[j].tfp : j \in DOMAIN m.maps}
                /\ refs' = [k \in File(tp) |-> refs[k] + maps_of(m.maps, k)]
                /\ UNCHANGED crashed
        /\ UNCHANGED tp

\* Mutation of torrent_piece_unmap: the files of the piece are closed.
torrent_piece_unmap_closing(i) ==
    /\ ~ crashed /\ i \in mapped
    /\ refs' = [k \in File(tp) |-> refs[k] - maps_of(mmaps[i], k)]
    /\ fd' = {k \in fd : maps_of(mmaps[i], k) = 0}
    /\ mmaps' = [mmaps EXCEPT ![i] = <<>>]
    /\ mapped' = mapped \ {i}
    /\ UNCHANGED <<tp, len, size, isnew, crashed>>

\* A file is closed with its last map.
torrent_piece_unmap(i) ==
    /\ ~ crashed /\ i \in mapped
    /\ refs' = [k \in File(tp) |-> refs[k] - maps_of(mmaps[i], k)]
    /\ fd' = {k \in fd : refs'[k] > 0}
    /\ mmaps' = [mmaps EXCEPT ![i] = <<>>]
    /\ mapped' = mapped \ {i}
    /\ UNCHANGED <<tp, len, size, isnew, crashed>>

\* The files may be there already, whole or in part.
Init ==
    /\ tp \in Torrents
    /\ size \in {z \in [File(tp) -> 0..Max(Range(tp.files))] : \A k \in File(tp) : z[k] <= tp.files[k]}
    /\ mmaps = [i \in Piece(tp) |-> <<>>]
    /\ len = [i \in Piece(tp) |-> piece_len(tp, i)]
    /\ mapped = {} /\ isnew = FALSE
    /\ fd = {} /\ refs = [k \in File(tp) |-> 0]
    /\ crashed = FALSE

Next == \E i \in Piece(tp) : torrent_piece_map(i) \/ torrent_piece_unmap(i)

Spec == Init /\ [][Next]_vars

------------------------------------------------------------------------------
\* The variables keep their types: the length of every mapped piece fits in its
\* 32-bit field, and only files of the torrent are open.
StoreTypeOK ==
    /\ tp \in Torrents /\ mapped \subseteq Piece(tp) /\ fd \subseteq File(tp)
    /\ DOMAIN mmaps = Piece(tp) /\ len \in [Piece(tp) -> 0..(MOD - 1)]
    /\ {isnew, crashed} \subseteq BOOLEAN
    /\ {size, refs} \subseteq [File(tp) -> Nat]

\* The data as one stream: the places of all bytes, file after file.
stream(t) == FlattenSeq([k \in File(t) |-> [b \in 1..t.files[k] |-> <<k, b - 1>>]])

\* The bytes of the stream that are piece i.
slice(t, i) == SubSeq(stream(t), i * t.piece_length + 1,
                      IF i < num_pieces(t) - 1 THEN (i + 1) * t.piece_length ELSE total(t))

ends(t, k) == SumFunctionOnSet(t.files, 1..k)

\* No file is empty, and none but the last that is shorter than a piece ends where
\* a piece does.
regular(t) ==
    /\ \A k \in File(t) : t.files[k] > 0
    /\ \A k \in 1..(Len(t.files) - 1) :
          t.files[k] < t.piece_length => ends(t, k) % t.piece_length # 0

\* Every block of a mapped piece is written to, and read from, the bytes of the
\* stream that it stands for, whatever files it crosses, also in a torrent whose
\* length exceeds 32 bits.
BlocksExact ==
    regular(tp) =>
        \A i \in mapped : \A off \in 0..(len[i] - 1) : \A n \in 1..(len[i] - off) :
            LET block == SubSeq(slice(tp, i), off + 1, off + n)
            IN  /\ torrent_block_write(mmaps[i], off, n) = block
                /\ torrent_block_read(mmaps[i], off, n) = block

\* Mapping a piece never changes its length, so that it can be mapped again and
\* its hash is one of all of its bytes.
LengthKept == regular(tp) => ~ crashed /\ \A i \in Piece(tp) : len[i] = Len(slice(tp, i))

\* A map lies inside its file, which is never longer than the torrent says.
MapsInside ==
    \A i \in mapped : \A j \in DOMAIN mmaps[i] :
        LET m == mmaps[i][j]
        IN  m.off + m.len <= size[m.tfp] /\ size[m.tfp] <= tp.files[m.tfp]

\* A file that pieces share is open as long as one of them is mapped, and not longer.
RefsExact ==
    \A k \in File(tp) :
        /\ refs[k] = SumFunction([i \in Piece(tp) |-> maps_of(mmaps[i], k)])
        /\ k \in fd <=> refs[k] > 0

\* "Consider the file data as one long continuous stream, composed of the
\* concatenation of each file in the order listed in the files list."
Concatenation ==
    /\ ~ crashed
    /\ \A i \in mapped : FlattenSeq([j \in DOMAIN mmaps[i] |-> part(mmaps[i][j], 0, mmaps[i][j].len)])
                         = slice(tp, i)
==============================================================================
