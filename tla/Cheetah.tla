-------------------------------- MODULE Cheetah --------------------------------
(***************************************************************************)
(* CheetahSACLRU (cheetah/saclru.cc): one pass over the addresses gives    *)
(* the hits of LRU caches of every number of sets 2^A to 2^B and of every  *)
(* number of ways up to 2^N.  For each of 2^A sets a tree holds the lines: *)
(* the root those used last, and a node at depth d, of 2^d, those of its   *)
(* lines that the root and the nodes above it have no room for.            *)
(*                                                                         *)
(* gb is the configuration: ways (TWO_PWR_N), depth (MAX_DEPTH), setBits   *)
(* (A) and the lines that are accessed.  tree is arr: by set and node      *)
(* <<d, low bits>>, first (the word that says where the node's lines       *)
(* begin) and slot.  left is the member `tag', which is not reset between  *)
(* accesses.  counted is what the latest access added to: <<w, d>> stands  *)
(* for sac_hits[w][d].  stack, the lines from the latest on, and expected  *)
(* are the reference.                                                      *)
(***************************************************************************)
EXTENDS Integers, Sequences, SequencesExt, FiniteSetsExt

CONSTANTS CheetahConfigs,
          InvalidTag          \* B80000000, beyond every tag; a power of two

VARIABLES gb, tree, left, counted, stack, expected

cheetahVars == <<gb, tree, left, counted, stack, expected>>

Nodes == {<<d, b>> \in (0 .. gb.depth) \X (0 .. 2^gb.depth - 1) : b < 2^d}
NodeOf(tag, d) == <<d, tag % 2^d>>

\* init_saclru: at each depth the lower half of the nodes is empty, the other full.
InitialNode(k) ==
  [first |-> IF k = <<0, 0>> \/ 2 * k[2] >= 2^k[1] THEN 1 ELSE gb.ways + 1,
   slot |-> [i \in 1 .. gb.ways |-> IF k = <<0, 0>> \/ 2 * k[2] >= 2^k[1] THEN InvalidTag + k[2] ELSE 0]]

CheetahInit ==
  /\ gb \in CheetahConfigs
  /\ tree = [s \in 0 .. 2^gb.setBits - 1 |-> [k \in Nodes |-> InitialNode(k)]]
  /\ left = 0
  /\ counted = {}
  /\ stack = <<>>
  /\ expected = {}

-----------------------------------------------------------------------------

\* rm_arr[(a ^ b) & DIFF_SET_MASK]: how many low bits two tags share.
SharedBits(a, b) == Max({d \in 0 .. gb.depth : a % 2^d = b % 2^d})

\* x is where an access to tag is: the tree, the line it moves (left), the counts of lines
\* passed (depths), and if it was found.

\* The lines of a node from place i on move down by one.
RECURSIVE PassNode(_, _, _, _)
PassNode(x, tag, k, i) ==
  IF i > gb.ways THEN x
  ELSE LET t1 == x.tree[k].slot[i]
           y == [x EXCEPT !.tree[k].slot[i] = x.left]
       IN  IF t1 = tag THEN [y EXCEPT !.hit = TRUE]
           ELSE PassNode([y EXCEPT !.left = t1, !.depths[SharedBits(tag, t1)] = @ + 1], tag, k, i + 1)

\* The place that became free goes to the node of the line moved here from above.
Place(x, k, atag, d) ==
  LET freed == [x.tree EXCEPT ![k].first = @ + 1]
      n == NodeOf(atag, d)
      first == freed[n].first - 1
  IN  [x EXCEPT !.tree = [freed EXCEPT ![n].first = first, ![n].slot[first] = atag]]

\* The next depth whose node, on the way of tag, holds a line.
NextDepth(x, tag, d) ==
  LET ds == {e \in d .. gb.depth : x.tree[NodeOf(tag, e)].first <= gb.ways} IN
  IF ds = {} THEN gb.depth + 1 ELSE Min(ds)

RECURSIVE Descend(_, _, _, _)
Descend(x, tag, atag, d) ==
  IF d > gb.depth THEN x
  ELSE LET k == NodeOf(tag, d)
           y == Place(PassNode(x, tag, k, x.tree[k].first), k, atag, d)
       IN  IF y.hit THEN y ELSE Descend(y, tag, y.left, NextDepth(y, tag, d + 1))


\* A hit counts in the caches of 2^d sets with more ways than lines of the set were passed.
Hits(x) ==
  LET sum(d) == FoldLeft(LAMBDA a, e : a + x.depths[e], 0, [i \in 1 .. gb.depth - d + 1 |-> d + i - 1]) IN
  {<<sum(d), d>> : d \in {e \in 0 .. gb.depth : sum(e) < gb.ways}}

\* sacnmul_woarr; hitarr0 is added to sac_hits[0] of every depth by flush.
Sacnmul(line) ==
  LET s == line % 2^gb.setBits
      tag == line \div 2^gb.setBits
      x == Descend([tree |-> tree[s], left |-> left, depths |-> [d \in 0 .. gb.depth |-> 0], hit |-> FALSE], tag, tag, 0)
  IN  IF tree[s][<<0, 0>>].slot[1] = tag
      THEN counted' = {<<0, d>> : d \in 0 .. gb.depth} /\ UNCHANGED <<tree, left>>
      ELSE /\ tree' = [tree EXCEPT ![s] = x.tree]
           /\ left' = x.left
           /\ counted' = IF x.hit THEN Hits(x) ELSE {}

\* An LRU cache of 2^(setBits + d) sets: the other lines of its set used since.
Distance(line, d) ==
  LET m == 2^(gb.setBits + d)
      since == SubSeq(stack, 1, Min({i \in DOMAIN stack : stack[i] = line}) - 1)
  IN  Len(SelectSeq(since, LAMBDA l : l % m = line % m))

CheetahAccess ==
  /\ \E line \in gb.lines :
       /\ Sacnmul(line)
       /\ expected' = IF ~Contains(stack, line) THEN {}
                      ELSE {<<Distance(line, d), d>> : d \in {e \in 0 .. gb.depth : Distance(line, e) < gb.ways}}
       /\ stack' = <<line>> \o Remove(stack, line)
  /\ UNCHANGED gb

CheetahSpec == CheetahInit /\ [][CheetahAccess]_cheetahVars

-----------------------------------------------------------------------------

\* Every node's first place is in the node, or just beyond it: the counts never run over
\* into the word itself, and lines are in nodes of their low bits.
NodesSound ==
  \A s \in DOMAIN tree : \A k \in Nodes :
    /\ tree[s][k].first \in 1 .. gb.ways + 1
    /\ \A i \in tree[s][k].first .. gb.ways : tree[s][k].slot[i] % 2^k[1] = k[2]

\* The tree counts each access as a hit for exactly the caches, of every number of sets and
\* ways, in which a cache with LRU replacement of its own would hit.
CountsAsLru == counted = expected
=============================================================================
