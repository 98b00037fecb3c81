------------------------------ MODULE DataCache ------------------------------
(***************************************************************************)
(* The data cache of memory/cache.c between paddr_read, paddr_write and    *)
(* hw_mem: set-associative, write-through, no allocation on a write, a     *)
(* random way replaced when a group is full.                               *)
(* An address is split by shifts into mark, group and offset; here it is   *)
(* the pair of a line <<mark, group>> and an offset.  The recursions (a    *)
(* missed line is read again, the part of an access behind the end of its  *)
(* line is an access of its own) happen at most once each: an access is    *)
(* not longer than a line.                                                 *)
(***************************************************************************)
EXTENDS Integers

CONSTANTS LineSize,  \* 64
          NR_GROUPS, \* 128
          NR_WAYS,   \* 8
          Lines,     \* the lines of hw_mem, pairs of mark and group
          Uint8,     \* the bytes
          Lens       \* 1, 2, 4

Groups == 0 .. NR_GROUPS - 1
Ways == 0 .. NR_WAYS - 1
Offs == 0 .. LineSize - 1
Addrs == Lines \X Offs

ASSUME CacheAssumption ==
  /\ LineSize \in Nat \ {0} /\ NR_GROUPS \in Nat \ {0} /\ NR_WAYS \in Nat \ {0}
  /\ Lines \subseteq Nat \X Groups
  /\ 0 \in Uint8
  /\ Lens \subseteq 1 .. LineSize

VARIABLES hw_mem,
          cache, \* by group and way
          ret    \* what the last read returned, byte by byte

vars == <<hw_mem, cache, ret>>

CacheLine == [valid : BOOLEAN, mark : Nat, data : [Offs -> Uint8]]

(* init_cache; the image is loaded into hw_mem past the cache, before the  *)
(* first access.                                                           *)
Init ==
  /\ hw_mem \in [Addrs -> Uint8]
  /\ cache = [g \in Groups |-> [w \in Ways |->
                [valid |-> FALSE, mark |-> 0, data |-> [o \in Offs |-> 0]]]]
  /\ ret = <<>>
-----------------------------------------------------------------------------
(* The line of paddr + lenL, the first address behind line l.              *)
NextLine(l) == IF l[2] = NR_GROUPS - 1 THEN <<l[1] + 1, 0>> ELSE <<l[1], l[2] + 1>>

Least(S) == CHOOSE w \in S : \A v \in S : w <= v

Hits(c, l) == {w \in Ways : c[l[2]][w].valid /\ c[l[2]][w].mark = l[1]}

(* The way a missed line goes to: the first invalid one, or any.           *)
Victims(c, g) ==
  LET invalid == {w \in Ways : ~c[g][w].valid}
  IN IF invalid = {} THEN Ways ELSE {Least(invalid)}

Fill(c, l, w) ==
  [c EXCEPT ![l[2]][w] =
     [valid |-> TRUE, mark |-> l[1], data |-> [o \in Offs |-> hw_mem[<<l, o>>]]]]

LookUpFills(c, l) ==  \* mutated form: fetches the line whether it is there or not
  {Fill(c, l, w) : w \in Victims(c, l[2])}

(* The cache after a read has found line l, or fetched it.                 *)
LookUp(c, l) ==
  IF Hits(c, l) # {} THEN {c} ELSE {Fill(c, l, w) : w \in Victims(c, l[2])}

DataOf(c, l) == c[l[2]][Least(Hits(c, l))].data

(* cache_read of an access that stays in its line, and of one that crosses *)
(* its end: the low part is copied before the next line is looked up.      *)
ReadInLine(l, o, len) ==
  /\ o + len <= LineSize
  /\ \E c \in LookUp(cache, l) :
       /\ cache' = c
       /\ ret' = [i \in 0 .. len - 1 |-> DataOf(c, l)[o + i]]
  /\ UNCHANGED hw_mem

ReadAcross(l, o, len) ==
  /\ o + len > LineSize /\ NextLine(l) \in Lines
  /\ \E c \in LookUp(cache, l) : \E cH \in LookUp(c, NextLine(l)) :
       /\ cache' = cH
       /\ ret' = [i \in 0 .. len - 1 |->
                    IF o + i < LineSize THEN DataOf(c, l)[o + i]
                    ELSE DataOf(cH, NextLine(l))[o + i - LineSize]]
  /\ UNCHANGED hw_mem
-----------------------------------------------------------------------------
WriteCacheUnshifted(c, l, o, n, d, k) ==  \* mutated form: Data is not shifted by lenL
  IF Hits(c, l) = {} THEN c
  ELSE [c EXCEPT ![l[2]][Least(Hits(c, l))].data =
          [x \in Offs |-> IF o <= x /\ x < o + n THEN d[x - o] ELSE @[x]]]

(* The n bytes d[k], d[k + 1], ... are written at offset o of line l: into *)
(* the first way that holds it, if one does, and into hw_mem.              *)
WriteCache(c, l, o, n, d, k) ==
  IF Hits(c, l) = {} THEN c
  ELSE [c EXCEPT ![l[2]][Least(Hits(c, l))].data =
          [x \in Offs |-> IF o <= x /\ x < o + n THEN d[x - o + k] ELSE @[x]]]

hw_mem_write(m, l, o, n, d, k) ==
  [a \in Addrs |-> IF a[1] = l /\ o <= a[2] /\ a[2] < o + n THEN d[a[2] - o + k] ELSE m[a]]

WriteInLine(l, o, len, d) ==
  /\ o + len <= LineSize
  /\ cache' = WriteCache(cache, l, o, len, d, 0)
  /\ hw_mem' = hw_mem_write(hw_mem, l, o, len, d, 0)
  /\ UNCHANGED ret

WriteAcrossLow(l, o, len, d) ==  \* mutated form: the next line is written to hw_mem only
  /\ o + len > LineSize /\ NextLine(l) \in Lines
  /\ LET lenL == LineSize - o
         lenH == o + len - LineSize
     IN /\ cache' = WriteCache(cache, l, o, lenL, d, 0)
        /\ hw_mem' = hw_mem_write(hw_mem_write(hw_mem, l, o, lenL, d, 0),
                                  NextLine(l), 0, lenH, d, lenL)
  /\ UNCHANGED ret

WriteAcross(l, o, len, d) ==
  /\ o + len > LineSize /\ NextLine(l) \in Lines
  /\ LET lenL == LineSize - o
         lenH == o + len - LineSize
     IN /\ cache' = WriteCache(WriteCache(cache, l, o, lenL, d, 0),
                               NextLine(l), 0, lenH, d, lenL)
        /\ hw_mem' = hw_mem_write(hw_mem_write(hw_mem, l, o, lenL, d, 0),
                                  NextLine(l), 0, lenH, d, lenL)
  /\ UNCHANGED ret
-----------------------------------------------------------------------------
Next ==
  \E l \in Lines, o \in Offs, len \in Lens :
    \/ ReadInLine(l, o, len)
    \/ ReadAcross(l, o, len)
    \/ \E d \in [0 .. len - 1 -> Uint8] :
         WriteInLine(l, o, len, d) \/ WriteAcross(l, o, len, d)

Spec == Init /\ [][Next]_vars
-----------------------------------------------------------------------------
TypeOK ==
  /\ hw_mem \in [Addrs -> Uint8]
  /\ cache \in [Groups -> [Ways -> CacheLine]]
  /\ ret = <<>> \/ \E len \in Lens : ret \in [0 .. len - 1 -> Uint8]

(* A valid line of the cache is a line of memory, byte by byte: no write   *)
(* leaves a stale copy (cache_write), no fetch a wrong one (cache_read).   *)
Coherent ==
  \A g \in Groups, w \in Ways :
    cache[g][w].valid =>
      LET l == <<cache[g][w].mark, g>>
      IN l \in Lines /\ \A o \in Offs : cache[g][w].data[o] = hw_mem[<<l, o>>]

(* A line is in one way at most; cache_write updates only the first it     *)
(* finds.                                                                  *)
OneWayPerLine ==
  \A g \in Groups, v, w \in Ways :
    cache[g][v].valid /\ cache[g][w].valid /\ cache[g][v].mark = cache[g][w].mark => v = w

(* Nobody can tell the cache from plain memory: every read returns what    *)
(* was written last, also across the end of a line.                        *)
Slot(a, i) == IF a[2] + i < LineSize THEN <<a[1], a[2] + i>>
              ELSE <<NextLine(a[1]), a[2] + i - LineSize>>
Memory == INSTANCE PlainMemory WITH mem <- hw_mem, Byte <- Uint8
ImplementsMemory == Memory!Spec
=============================================================================
