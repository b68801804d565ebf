--------------------------- MODULE PieceDl_proofs ---------------------------
(* The lists of PieceDl stay linked, for every number of peers, blocks and *)
(* requests.                                                               *)
EXTENDS PieceDl, TLAPS, SequenceTheorems

------------------------------------------------------------------------------
(* Tail queues.                                                             *)

\* Appending a new element keeps a list duplicate-free and adds the element.
LEMMA QueueInsert ==
    ASSUME NEW S, NEW s \in Seq(S), NEW d \in S, IsInjective(s), d \notin Range(s)
    PROVE  /\ TAILQ_INSERT_TAIL(s, d) \in Seq(S)
           /\ IsInjective(TAILQ_INSERT_TAIL(s, d))
           /\ Range(TAILQ_INSERT_TAIL(s, d)) = Range(s) \cup {d}
           /\ TAILQ_INSERT_TAIL(s, d) # <<>>
<1> DEFINE t == Append(s, d)
<1>1. /\ t \in Seq(S)
      /\ Len(t) = Len(s) + 1
      /\ \A i \in 1..Len(s) : t[i] = s[i]
      /\ t[Len(s) + 1] = d
  OBVIOUS
<1>2. DOMAIN s = 1..Len(s) /\ DOMAIN t = 1..(Len(s) + 1) /\ Len(s) \in Nat
  BY <1>1
<1>3. \A i \in 1..Len(s) : s[i] \in Range(s)
  BY <1>2 DEF Range
<1>4. IsInjective(t)
  BY <1>1, <1>2, <1>3 DEF IsInjective
<1>5. Range(t) = Range(s) \cup {d}
  BY <1>1, <1>2 DEF Range
<1>6. t # <<>>
  BY AppendProperties
<1> QED
  BY <1>1, <1>4, <1>5, <1>6 DEF TAILQ_INSERT_TAIL

\* Removing an element keeps a list duplicate-free and removes that one only.
LEMMA QueueRemove ==
    ASSUME NEW S, NEW s \in Seq(S), NEW d \in Range(s), IsInjective(s)
    PROVE  /\ TAILQ_REMOVE(s, d) \in Seq(S)
           /\ IsInjective(TAILQ_REMOVE(s, d))
           /\ Range(TAILQ_REMOVE(s, d)) = Range(s) \ {d}
<1> DEFINE n == Len(s)
           t == TAILQ_REMOVE(s, d)
<1>1. n \in Nat /\ DOMAIN s = 1..n /\ \A i \in 1..n : s[i] \in S
  OBVIOUS
<1>2. PICK k \in 1..n : s[k] = d
  BY <1>1 DEF Range
<1>3. \A i \in 1..n : s[i] = d => i = k
  BY <1>1, <1>2 DEF IsInjective
<1>4. \A i \in 1..(n - 1) : t[i] = IF k <= i THEN s[i + 1] ELSE s[i]
  <2> SUFFICES ASSUME NEW i \in 1..(n - 1)
               PROVE  t[i] = IF k <= i THEN s[i + 1] ELSE s[i]
    OBVIOUS
  <2>1. (\E j \in 1..i : s[j] = d) <=> k <= i
    BY <1>1, <1>2, <1>3
  <2> QED
    BY <2>1 DEF TAILQ_REMOVE
<1>5. n - 1 \in Nat
  BY <1>1, <1>2
<1>6. DOMAIN t = 1..(n - 1)
  BY DEF TAILQ_REMOVE
<1>7. \A i \in 1..(n - 1) : t[i] \in S
  BY <1>1, <1>2, <1>4
<1>8. t \in Seq(S)
  <2>1. t = [i \in 1..(n - 1) |-> t[i]]
    BY DEF TAILQ_REMOVE
  <2> QED
    BY <1>5, <1>7, <2>1
<1>9. IsInjective(t)
  <2> SUFFICES ASSUME NEW i \in 1..(n - 1), NEW j \in 1..(n - 1), t[i] = t[j]
               PROVE  i = j
    BY <1>6 DEF IsInjective
  <2> QED
    BY <1>1, <1>2, <1>4 DEF IsInjective
<1>10. Range(t) = Range(s) \ {d}
  <2>1. ASSUME NEW x \in Range(t) PROVE x \in Range(s) /\ x # d
    <3>1. PICK i \in 1..(n - 1) : t[i] = x
      BY <1>6 DEF Range
    <3> QED
      BY <1>1, <1>2, <1>3, <1>4, <3>1 DEF Range
  <2>2. ASSUME NEW x \in Range(s), x # d PROVE x \in Range(t)
    <3>1. PICK i \in 1..n : s[i] = x
      BY <1>1 DEF Range
    <3>2. CASE i < k
      <4>1. i \in 1..(n - 1) /\ t[i] = x
        BY <1>1, <1>2, <1>4, <3>1, <3>2
      <4> QED
        BY <1>6, <4>1 DEF Range
    <3>3. CASE k < i
      <4>1. i - 1 \in 1..(n - 1) /\ t[i - 1] = x
        BY <1>1, <1>2, <1>4, <3>1, <3>3
      <4> QED
        BY <1>6, <4>1 DEF Range
    <3> QED
      BY <1>1, <1>2, <2>2, <3>1, <3>2, <3>3
  <2> QED
    BY <2>1, <2>2
<1> QED
  BY <1>8, <1>9, <1>10

\* Only the empty list has no element.
LEMMA EmptyRange ==
    ASSUME NEW S, NEW s \in Seq(S)
    PROVE  /\ s = <<>> <=> Range(s) = {}
           /\ s # <<>> => Head(s) \in Range(s)
<1>1. DOMAIN s = 1..Len(s) /\ Len(s) \in Nat
  OBVIOUS
<1>2. s # <<>> => 1 \in DOMAIN s /\ Head(s) = s[1]
  BY <1>1
<1>3. s = <<>> => Range(s) = {}
  BY <1>1 DEF Range
<1> QED
  BY <1>1, <1>2, <1>3 DEF Range

------------------------------------------------------------------------------
(* One lemma per operation: it preserves the invariant.                     *)

\* A new request is linked into its peer's list and its block's node.
LEMMA CreateInv ==
    ASSUME PdInv, NEW p \in Peer, NEW b \in Block, NEW d \in Pd,
           network_piece_dl_create(p, b, d)
    PROVE  PdInv'
<1> USE NullAssumption, NullRecAssumption DEF PdInv
<1> DEFINE r == [pc |-> p, blk |-> b, bytes |-> 0]
<1>1. r \in PieceDlRec /\ r # NULL /\ r.pc = p /\ r.blk = b
  BY DEF PieceDlRec, Bytes
<1>2. /\ piece_dl[d] = NULL /\ d \notin Live
      /\ piece_dl' = [piece_dl EXCEPT ![d] = r]
      /\ Live' = Live \cup {d}
  BY <1>1 DEF network_piece_dl_create, Live, PdTypeOK
<1>3. d \notin Range(idxnode_piece_dls[b]) /\ d \notin Range(peer_piece_dls[p])
  BY <1>2 DEF Linked
<1>4. /\ TAILQ_INSERT_TAIL(idxnode_piece_dls[b], d) \in Seq(Pd)
      /\ IsInjective(TAILQ_INSERT_TAIL(idxnode_piece_dls[b], d))
      /\ Range(TAILQ_INSERT_TAIL(idxnode_piece_dls[b], d)) = Range(idxnode_piece_dls[b]) \cup {d}
      /\ TAILQ_INSERT_TAIL(idxnode_piece_dls[b], d) # <<>>
  BY <1>3, QueueInsert DEF PdTypeOK, Linked
<1>5. /\ TAILQ_INSERT_TAIL(peer_piece_dls[p], d) \in Seq(Pd)
      /\ IsInjective(TAILQ_INSERT_TAIL(peer_piece_dls[p], d))
      /\ Range(TAILQ_INSERT_TAIL(peer_piece_dls[p], d)) = Range(peer_piece_dls[p]) \cup {d}
  BY <1>3, QueueInsert DEF PdTypeOK, Linked
<1>6. PdTypeOK'
  BY <1>1, <1>2, <1>4, <1>5 DEF PdTypeOK, network_piece_dl_create
<1>7. ASSUME NEW c \in Block
      PROVE  /\ IsInjective(idxnode_piece_dls'[c])
             /\ Range(idxnode_piece_dls'[c]) = {x \in Live' : piece_dl'[x].blk = c}
             /\ c \in tree' <=> idxnode_piece_dls'[c] # <<>>
  <2>1. Range(idxnode_piece_dls[c]) = {x \in Live : piece_dl[x].blk = c} /\ IsInjective(idxnode_piece_dls[c])
    BY DEF Linked
  <2>2. {x \in Live' : piece_dl'[x].blk = c}
          = IF c = b THEN Range(idxnode_piece_dls[c]) \cup {d} ELSE Range(idxnode_piece_dls[c])
    BY <1>1, <1>2, <2>1 DEF PdTypeOK, Live
  <2>3. CASE c = b
    <3>1. idxnode_piece_dls'[c] = TAILQ_INSERT_TAIL(idxnode_piece_dls[b], d) /\ c \in tree'
      BY <2>3 DEF network_piece_dl_create, PdTypeOK
    <3> QED
      BY <1>4, <2>2, <2>3, <3>1
  <2>4. CASE c # b
    <3>1. idxnode_piece_dls'[c] = idxnode_piece_dls[c] /\ (c \in tree' <=> c \in tree)
      BY <2>4 DEF network_piece_dl_create, PdTypeOK
    <3> QED
      BY <2>1, <2>2, <2>4, <3>1 DEF NoEmptyNode
  <2> QED
    BY <2>3, <2>4
<1>8. ASSUME NEW q \in Peer
      PROVE  /\ IsInjective(peer_piece_dls'[q])
             /\ Range(peer_piece_dls'[q]) = {x \in Live' : piece_dl'[x].pc = q}
  <2>1. Range(peer_piece_dls[q]) = {x \in Live : piece_dl[x].pc = q} /\ IsInjective(peer_piece_dls[q])
    BY DEF Linked
  <2>2. {x \in Live' : piece_dl'[x].pc = q}
          = IF q = p THEN Range(peer_piece_dls[q]) \cup {d} ELSE Range(peer_piece_dls[q])
    BY <1>1, <1>2, <2>1 DEF PdTypeOK, Live
  <2>3. CASE q = p
    <3>1. peer_piece_dls'[q] = TAILQ_INSERT_TAIL(peer_piece_dls[p], d)
      BY <2>3 DEF network_piece_dl_create, PdTypeOK
    <3> QED
      BY <1>5, <2>2, <2>3, <3>1
  <2>4. CASE q # p
    <3>1. peer_piece_dls'[q] = peer_piece_dls[q]
      BY <2>4 DEF network_piece_dl_create, PdTypeOK
    <3> QED
      BY <2>1, <2>2, <2>4, <3>1
  <2> QED
    BY <2>3, <2>4
<1> QED
  BY <1>6, <1>7, <1>8 DEF Linked, NoEmptyNode

\* IndexRemove takes a request off its block's list, and off no other.
LEMMA IndexRemoved ==
    ASSUME PdInv, NEW d \in Live, IndexRemove(d)
    PROVE  /\ idxnode_piece_dls' \in [Block -> Seq(Pd)]
           /\ tree' \subseteq Block
           /\ \A c \in Block :
                /\ IsInjective(idxnode_piece_dls'[c])
                /\ Range(idxnode_piece_dls'[c]) = Range(idxnode_piece_dls[c]) \ {d}
                /\ c \in tree' <=> idxnode_piece_dls'[c] # <<>>
<1> USE NullAssumption, NullRecAssumption DEF PdInv
<1> DEFINE b == piece_dl[d].blk
           rest == TAILQ_REMOVE(idxnode_piece_dls[b], d)
<1>1. d \in Pd /\ piece_dl[d] \in PieceDlRec /\ b \in Block
  BY DEF Live, PdTypeOK, PieceDlRec
<1>2. d \in Range(idxnode_piece_dls[b]) /\ \A c \in Block : c # b => d \notin Range(idxnode_piece_dls[c])
  BY <1>1 DEF Linked
<1>3. idxnode_piece_dls[b] \in Seq(Pd) /\ IsInjective(idxnode_piece_dls[b])
  BY <1>1 DEF PdTypeOK, Linked
<1>4. /\ rest \in Seq(Pd) /\ IsInjective(rest)
      /\ Range(rest) = Range(idxnode_piece_dls[b]) \ {d}
  BY <1>2, <1>3, QueueRemove
<1>5. b \in tree
  BY <1>1, <1>2, <1>3, EmptyRange DEF NoEmptyNode
<1>6. /\ idxnode_piece_dls' = [idxnode_piece_dls EXCEPT ![b] = rest]
      /\ tree' = IF rest = <<>> THEN tree \ {b} ELSE tree
  BY <1>5 DEF IndexRemove
<1> HIDE DEF rest, b
<1>7. ASSUME NEW c \in Block
      PROVE  /\ IsInjective(idxnode_piece_dls'[c])
             /\ Range(idxnode_piece_dls'[c]) = Range(idxnode_piece_dls[c]) \ {d}
             /\ c \in tree' <=> idxnode_piece_dls'[c] # <<>>
  <2>1. CASE c = b
    BY <1>4, <1>5, <1>6, <2>1 DEF PdTypeOK
  <2>2. CASE c # b
    <3>1. idxnode_piece_dls'[c] = idxnode_piece_dls[c] /\ (c \in tree' <=> c \in tree)
      BY <1>6, <2>2 DEF PdTypeOK
    <3>2. Range(idxnode_piece_dls[c]) = Range(idxnode_piece_dls[c]) \ {d}
      BY <1>2, <2>2
    <3> QED
      BY <3>1, <3>2 DEF Linked, NoEmptyNode
  <2> QED
    BY <2>1, <2>2
<1> QED
  BY <1>1, <1>4, <1>6, <1>7 DEF PdTypeOK

\* p's list after the removal of one of its requests.
LEMMA PeerRemoved ==
    ASSUME PdInv, NEW p \in Peer, NEW d \in Range(peer_piece_dls[p]),
           peer_piece_dls' = [peer_piece_dls EXCEPT ![p] = TAILQ_REMOVE(@, d)]
    PROVE  /\ peer_piece_dls' \in [Peer -> Seq(Pd)]
           /\ \A q \in Peer :
                /\ IsInjective(peer_piece_dls'[q])
                /\ Range(peer_piece_dls'[q]) = Range(peer_piece_dls[q]) \ {d}
<1> USE NullAssumption DEF PdInv
<1> DEFINE rest == TAILQ_REMOVE(peer_piece_dls[p], d)
<1>1. /\ rest \in Seq(Pd) /\ IsInjective(rest)
      /\ Range(rest) = Range(peer_piece_dls[p]) \ {d}
  BY QueueRemove DEF PdTypeOK, Linked
<1>2. peer_piece_dls' = [peer_piece_dls EXCEPT ![p] = rest]
  OBVIOUS
<1>3. \A q \in Peer : q # p => d \notin Range(peer_piece_dls[q])
  BY DEF Linked
<1> HIDE DEF rest
<1>4. ASSUME NEW q \in Peer
      PROVE  /\ IsInjective(peer_piece_dls'[q])
             /\ Range(peer_piece_dls'[q]) = Range(peer_piece_dls[q]) \ {d}
  <2>1. CASE q = p
    BY <1>1, <1>2, <2>1 DEF PdTypeOK
  <2>2. CASE q # p
    <3>1. peer_piece_dls'[q] = peer_piece_dls[q]
      BY <1>2, <2>2 DEF PdTypeOK
    <3>2. Range(peer_piece_dls[q]) = Range(peer_piece_dls[q]) \ {d}
      BY <1>3, <2>2
    <3> QED
      BY <3>1, <3>2 DEF Linked
  <2> QED
    BY <2>1, <2>2
<1> QED
  BY <1>1, <1>2, <1>4 DEF PdTypeOK

\* A request that is freed is in no list any more.
LEMMA FreeInv ==
    ASSUME PdInv, NEW d \in Pd, network_piece_dl_free(d)
    PROVE  PdInv'
<1> USE NullAssumption, NullRecAssumption DEF PdInv
<1>1. d \in Live /\ piece_dl[d] \in PieceDlRec
  BY DEF network_piece_dl_free, Live, PdTypeOK
<1>2. /\ idxnode_piece_dls' \in [Block -> Seq(Pd)]
      /\ tree' \subseteq Block
      /\ \A c \in Block :
           /\ IsInjective(idxnode_piece_dls'[c])
           /\ Range(idxnode_piece_dls'[c]) = Range(idxnode_piece_dls[c]) \ {d}
           /\ c \in tree' <=> idxnode_piece_dls'[c] # <<>>
  BY <1>1, IndexRemoved DEF network_piece_dl_free
<1>3. /\ peer_piece_dls' \in [Peer -> Seq(Pd)]
      /\ \A q \in Peer :
           /\ IsInjective(peer_piece_dls'[q])
           /\ Range(peer_piece_dls'[q]) = Range(peer_piece_dls[q]) \ {d}
  <2>1. CASE piece_dl[d].pc = NULL
    <3>1. \A q \in Peer : d \notin Range(peer_piece_dls[q])
      BY <2>1 DEF Linked
    <3>2. peer_piece_dls' = peer_piece_dls
      BY <2>1 DEF network_piece_dl_free
    <3> QED
      BY <3>1, <3>2 DEF Linked, PdTypeOK
  <2>2. CASE piece_dl[d].pc # NULL
    <3>1. piece_dl[d].pc \in Peer
      BY <1>1, <2>2 DEF PieceDlRec
    <3>2. d \in Range(peer_piece_dls[piece_dl[d].pc])
      BY <1>1, <3>1 DEF Linked
    <3>3. peer_piece_dls' = [peer_piece_dls EXCEPT ![piece_dl[d].pc] = TAILQ_REMOVE(@, d)]
      BY <2>2 DEF network_piece_dl_free
    <3> QED
      BY <3>1, <3>2, <3>3, PeerRemoved
  <2> QED
    BY <2>1, <2>2
<1>4. piece_dl' = [piece_dl EXCEPT ![d] = NULL] /\ Live' = Live \ {d}
  BY DEF network_piece_dl_free, Live, PdTypeOK
<1>5. PdTypeOK'
  BY <1>2, <1>3, <1>4 DEF PdTypeOK
<1>6. \A c \in Block : {x \in Live' : piece_dl'[x].blk = c} = {x \in Live : piece_dl[x].blk = c} \ {d}
  BY <1>4 DEF PdTypeOK, Live
<1>7. \A q \in Peer : {x \in Live' : piece_dl'[x].pc = q} = {x \in Live : piece_dl[x].pc = q} \ {d}
  BY <1>4 DEF PdTypeOK, Live
<1> QED
  BY <1>2, <1>3, <1>5, <1>6, <1>7 DEF Linked, NoEmptyNode

\* One turn of network_peer_free(): the request leaves p's list, and the tree
\* too unless it is complete.
LEMMA PeerFreeInv ==
    ASSUME PdInv, NEW p \in Peer, network_peer_free_dl(p)
    PROVE  PdInv'
<1> USE NullAssumption, NullRecAssumption DEF PdInv
<1> DEFINE d == Head(peer_piece_dls[p])
<1>1. d \in Range(peer_piece_dls[p])
  BY EmptyRange DEF network_peer_free_dl, PdTypeOK
<1>2. d \in Live /\ d \in Pd /\ piece_dl[d] \in PieceDlRec /\ piece_dl[d].pc = p
  BY <1>1 DEF Linked, Live, PdTypeOK
<1>3. /\ peer_piece_dls' = [peer_piece_dls EXCEPT ![p] = TAILQ_REMOVE(@, d)]
      /\ \/ /\ piece_dl' = [piece_dl EXCEPT ![d].pc = NULL]
            /\ UNCHANGED <<tree, idxnode_piece_dls>>
         \/ /\ piece_dl' = [piece_dl EXCEPT ![d] = NULL]
            /\ IndexRemove(d)
  BY DEF network_peer_free_dl
<1> HIDE DEF d
<1>4. /\ peer_piece_dls' \in [Peer -> Seq(Pd)]
      /\ \A q \in Peer :
           /\ IsInjective(peer_piece_dls'[q])
           /\ Range(peer_piece_dls'[q]) = Range(peer_piece_dls[q]) \ {d}
  BY <1>1, <1>3, PeerRemoved
<1>5. CASE piece_dl' = [piece_dl EXCEPT ![d].pc = NULL] /\ UNCHANGED <<tree, idxnode_piece_dls>>
  <2>1. /\ piece_dl'[d] \in PieceDlRec /\ piece_dl'[d].pc = NULL
        /\ piece_dl'[d].blk = piece_dl[d].blk
        /\ \A x \in Pd : x # d => piece_dl'[x] = piece_dl[x]
        /\ piece_dl' \in [Pd -> PieceDlRec \cup {NULL}]
    BY <1>2, <1>5 DEF PdTypeOK, PieceDlRec
  <2>2. Live' = Live
    BY <1>2, <2>1 DEF Live
  <2>3. PdTypeOK'
    BY <1>4, <1>5, <2>1 DEF PdTypeOK
  <2>4. \A c \in Block : {x \in Live' : piece_dl'[x].blk = c} = {x \in Live : piece_dl[x].blk = c}
    BY <2>1, <2>2 DEF Live
  <2>5. \A q \in Peer : {x \in Live' : piece_dl'[x].pc = q} = {x \in Live : piece_dl[x].pc = q} \ {d}
    BY <2>1, <2>2 DEF Live
  <2>6. idxnode_piece_dls' = idxnode_piece_dls /\ tree' = tree
    BY <1>5
  <2> QED
    BY <1>4, <2>3, <2>4, <2>5, <2>6 DEF Linked, NoEmptyNode
<1>6. CASE piece_dl' = [piece_dl EXCEPT ![d] = NULL] /\ IndexRemove(d)
  <2>1. /\ idxnode_piece_dls' \in [Block -> Seq(Pd)]
        /\ tree' \subseteq Block
        /\ \A c \in Block :
             /\ IsInjective(idxnode_piece_dls'[c])
             /\ Range(idxnode_piece_dls'[c]) = Range(idxnode_piece_dls[c]) \ {d}
             /\ c \in tree' <=> idxnode_piece_dls'[c] # <<>>
    BY <1>2, <1>6, IndexRemoved
  <2>2. Live' = Live \ {d}
    BY <1>2, <1>6 DEF Live, PdTypeOK
  <2>3. PdTypeOK'
    BY <1>4, <1>6, <2>1 DEF PdTypeOK
  <2>4. \A c \in Block : {x \in Live' : piece_dl'[x].blk = c} = {x \in Live : piece_dl[x].blk = c} \ {d}
    BY <1>6, <2>2 DEF PdTypeOK, Live
  <2>5. \A q \in Peer : {x \in Live' : piece_dl'[x].pc = q} = {x \in Live : piece_dl[x].pc = q} \ {d}
    BY <1>6, <2>2 DEF PdTypeOK, Live
  <2> QED
    BY <1>4, <2>1, <2>3, <2>4, <2>5 DEF Linked, NoEmptyNode
<1> QED
  BY <1>3, <1>5, <1>6

\* CHOKE orphans p's requests: they stay in the tree and leave p's list.
LEMMA OrphanInv ==
    ASSUME PdInv, NEW p \in Peer, orphan_all(p)
    PROVE  PdInv'
<1> USE NullAssumption, NullRecAssumption DEF PdInv
<1> DEFINE L == Range(peer_piece_dls[p])
<1>1. L = {x \in Live : piece_dl[x].pc = p}
  BY DEF Linked
<1>2. /\ \A x \in Pd : x \in L => piece_dl'[x] = [piece_dl[x] EXCEPT !.pc = NULL]
      /\ \A x \in Pd : x \notin L => piece_dl'[x] = piece_dl[x]
      /\ DOMAIN piece_dl' = Pd
      /\ piece_dl' = [x \in Pd |-> piece_dl'[x]]
  BY DEF orphan_all
<1> HIDE DEF L
<1>3. \A x \in L : /\ x \in Pd /\ piece_dl[x] \in PieceDlRec
                   /\ piece_dl'[x] \in PieceDlRec /\ piece_dl'[x].pc = NULL
                   /\ piece_dl'[x].blk = piece_dl[x].blk
  <2> TAKE x \in L
  <2>1. x \in Pd /\ piece_dl[x] \in PieceDlRec
    BY <1>1 DEF Live, PdTypeOK
  <2>2. piece_dl'[x] = [piece_dl[x] EXCEPT !.pc = NULL]
    BY <1>2, <2>1
  <2> QED
    BY <2>1, <2>2 DEF PieceDlRec
<1>4. Live' = Live
  BY <1>1, <1>2, <1>3 DEF Live
<1>5. peer_piece_dls' = [peer_piece_dls EXCEPT ![p] = <<>>] /\ tree' = tree
      /\ idxnode_piece_dls' = idxnode_piece_dls
  BY DEF orphan_all
<1>6. piece_dl' \in [Pd -> PieceDlRec \cup {NULL}]
  BY <1>2, <1>3 DEF PdTypeOK
<1>7. PdTypeOK'
  BY <1>5, <1>6 DEF PdTypeOK
<1>8. \A c \in Block : {x \in Live' : piece_dl'[x].blk = c} = {x \in Live : piece_dl[x].blk = c}
  BY <1>2, <1>3, <1>4 DEF Live
<1>9. ASSUME NEW q \in Peer
      PROVE  /\ IsInjective(peer_piece_dls'[q])
             /\ Range(peer_piece_dls'[q]) = {x \in Live' : piece_dl'[x].pc = q}
  <2>1. CASE q = p
    <3>1. {x \in Live' : piece_dl'[x].pc = q} = {}
      BY <1>1, <1>2, <1>3, <1>4, <2>1 DEF Live
    <3>2. peer_piece_dls'[q] = <<>>
      BY <1>5, <2>1 DEF PdTypeOK
    <3>3. IsInjective(<<>>) /\ Range(<<>>) = {}
      BY DEF IsInjective, Range
    <3> QED
      BY <3>1, <3>2, <3>3
  <2>2. CASE q # p
    <3>1. {x \in Live' : piece_dl'[x].pc = q} = {x \in Live : piece_dl[x].pc = q}
      BY <1>1, <1>2, <1>3, <1>4, <2>2 DEF Live
    <3>2. peer_piece_dls'[q] = peer_piece_dls[q]
      BY <1>5, <2>2 DEF PdTypeOK
    <3> QED
      BY <3>1, <3>2 DEF Linked
  <2> QED
    BY <2>1, <2>2
<1> QED
  BY <1>5, <1>7, <1>8, <1>9 DEF Linked, NoEmptyNode

\* An orphan that is recycled enters the list of its new peer.
LEMMA RecycleInv ==
    ASSUME PdInv, NEW p \in Peer, NEW d \in Pd, recycle(p, d)
    PROVE  PdInv'
<1> USE NullAssumption, NullRecAssumption DEF PdInv
<1>1. /\ d \in Live /\ piece_dl[d] \in PieceDlRec /\ piece_dl[d].pc = NULL
      /\ piece_dl' = [piece_dl EXCEPT ![d].pc = p]
      /\ peer_piece_dls' = [peer_piece_dls EXCEPT ![p] = TAILQ_INSERT_TAIL(@, d)]
      /\ tree' = tree /\ idxnode_piece_dls' = idxnode_piece_dls
  BY DEF recycle, Live, PdTypeOK
<1>2. /\ piece_dl'[d] \in PieceDlRec /\ piece_dl'[d].pc = p
      /\ piece_dl'[d].blk = piece_dl[d].blk
      /\ \A x \in Pd : x # d => piece_dl'[x] = piece_dl[x]
      /\ piece_dl' \in [Pd -> PieceDlRec \cup {NULL}]
  BY <1>1 DEF PdTypeOK, PieceDlRec
<1>3. Live' = Live
  BY <1>1, <1>2 DEF Live
<1>4. d \notin Range(peer_piece_dls[p])
  BY <1>1 DEF Linked
<1>5. /\ TAILQ_INSERT_TAIL(peer_piece_dls[p], d) \in Seq(Pd)
      /\ IsInjective(TAILQ_INSERT_TAIL(peer_piece_dls[p], d))
      /\ Range(TAILQ_INSERT_TAIL(peer_piece_dls[p], d)) = Range(peer_piece_dls[p]) \cup {d}
  BY <1>4, QueueInsert DEF PdTypeOK, Linked
<1>6. PdTypeOK'
  BY <1>1, <1>2, <1>5 DEF PdTypeOK
<1>7. \A c \in Block : {x \in Live' : piece_dl'[x].blk = c} = {x \in Live : piece_dl[x].blk = c}
  BY <1>2, <1>3 DEF Live
<1>8. ASSUME NEW q \in Peer
      PROVE  /\ IsInjective(peer_piece_dls'[q])
             /\ Range(peer_piece_dls'[q]) = {x \in Live' : piece_dl'[x].pc = q}
  <2>1. CASE q = p
    <3>1. {x \in Live' : piece_dl'[x].pc = q} = {x \in Live : piece_dl[x].pc = q} \cup {d}
      BY <1>1, <1>2, <1>3, <2>1 DEF Live
    <3>2. peer_piece_dls'[q] = TAILQ_INSERT_TAIL(peer_piece_dls[p], d)
      BY <1>1, <2>1 DEF PdTypeOK
    <3> QED
      BY <1>5, <2>1, <3>1, <3>2 DEF Linked
  <2>2. CASE q # p
    <3>1. {x \in Live' : piece_dl'[x].pc = q} = {x \in Live : piece_dl[x].pc = q}
      BY <1>1, <1>2, <1>3, <2>2 DEF Live
    <3>2. peer_piece_dls'[q] = peer_piece_dls[q]
      BY <1>1, <2>2 DEF PdTypeOK
    <3> QED
      BY <3>1, <3>2 DEF Linked
  <2> QED
    BY <2>1, <2>2
<1> QED
  BY <1>1, <1>6, <1>7, <1>8 DEF Linked, NoEmptyNode

\* Counting bytes moves no request.
LEMMA CountInv ==
    ASSUME PdInv, NEW d \in Pd, count_bytes(d)
    PROVE  PdInv'
<1> USE NullAssumption, NullRecAssumption DEF PdInv
<1>1. /\ d \in Live /\ piece_dl[d] \in PieceDlRec
      /\ piece_dl' = [piece_dl EXCEPT ![d].bytes = IF @ = 2 THEN 2 ELSE @ + 1]
      /\ tree' = tree /\ idxnode_piece_dls' = idxnode_piece_dls /\ peer_piece_dls' = peer_piece_dls
  BY DEF count_bytes, Live, PdTypeOK
<1>2. (IF piece_dl[d].bytes = 2 THEN 2 ELSE piece_dl[d].bytes + 1) \in Bytes
  BY <1>1 DEF PieceDlRec, Bytes
<1>3. /\ piece_dl'[d] \in PieceDlRec /\ piece_dl'[d].pc = piece_dl[d].pc
      /\ piece_dl'[d].blk = piece_dl[d].blk
      /\ \A x \in Pd : x # d => piece_dl'[x] = piece_dl[x]
      /\ piece_dl' \in [Pd -> PieceDlRec \cup {NULL}]
  BY <1>1, <1>2 DEF PdTypeOK, PieceDlRec
<1>4. Live' = Live
  BY <1>1, <1>3 DEF Live
<1>5. PdTypeOK'
  BY <1>1, <1>3 DEF PdTypeOK
<1>6. /\ \A c \in Block : {x \in Live' : piece_dl'[x].blk = c} = {x \in Live : piece_dl[x].blk = c}
      /\ \A q \in Peer : {x \in Live' : piece_dl'[x].pc = q} = {x \in Live : piece_dl[x].pc = q}
  BY <1>3, <1>4 DEF Live
<1> QED
  BY <1>1, <1>5, <1>6 DEF Linked, NoEmptyNode

------------------------------------------------------------------------------
\* At first nothing is requested.
LEMMA PdInitInv == PdInit => PdInv
<1> SUFFICES ASSUME PdInit PROVE PdInv
  OBVIOUS
<1>1. IsInjective(<<>>) /\ Range(<<>>) = {}
  BY DEF IsInjective, Range
<1>2. PdTypeOK
  BY DEF PdInit, PdTypeOK
<1>3. Live = {}
  BY DEF PdInit, Live
<1> QED
  BY <1>1, <1>2, <1>3 DEF PdInit, PdInv, Linked, NoEmptyNode

\* Every operation on the requests preserves the invariant.
LEMMA PdNextInv == PdInv /\ [PdNext]_pdvars => PdInv'
<1> SUFFICES ASSUME PdInv, [PdNext]_pdvars PROVE PdInv'
  OBVIOUS
<1>1. CASE UNCHANGED pdvars
  BY <1>1 DEF pdvars, PdInv, PdTypeOK, Linked, NoEmptyNode, Live
<1>2. CASE PdNext
  BY <1>2, CreateInv, FreeInv, OrphanInv, PeerFreeInv, RecycleInv, CountInv DEF PdNext
<1> QED
  BY <1>1, <1>2

\* The inductive invariant holds in every state.
LEMMA PdInvariant == PdSpec => []PdInv
<1>1. PdInit => PdInv
  BY PdInitInv
<1>2. PdInv /\ [PdNext]_pdvars => PdInv'
  BY PdNextInv
<1> QED
  BY <1>1, <1>2, PTL DEF PdSpec

\* Every variable keeps its type: no counter of received bytes exceeds its
\* block, and no list or node names anything but allocated requests.
THEOREM PdTypes == PdSpec => []PdTypeOK
  BY PdInvariant, PTL DEF PdInv

\* The per-peer lists and the tree of block requests stay consistent with the
\* requests whatever sequence of creations, frees, chokes, recyclings, receptions
\* and peer deaths the client goes through, for any number of peers and blocks.
THEOREM PdLinked == PdSpec => []Linked
  BY PdInvariant, PTL DEF PdInv

\* A node is in the tree exactly while some request for its block exists, so the
\* first request the trace loop of scheduler() dereferences is always there.
THEOREM PdNoEmptyNode == PdSpec => []NoEmptyNode
  BY PdInvariant, PTL DEF PdInv
==============================================================================
