--------------------------------- MODULE Fat ---------------------------------
(***************************************************************************)
(* A FAT32 volume as FAT32.c keeps it: the table cached in memory, its two *)
(* copies on the disk, the entries of the root directory, and the nodes    *)
(* (fat_node_t) that lookup and create hand out, one per call.             *)
(*                                                                         *)
(* A call changes memory at once and leaves, in pending, the writes it     *)
(* still has to do, in its order; each may fail, and the power may go      *)
(* between two or within one.  A cluster holds one sector of EPC entries,  *)
(* a copy of the table is several; sizes are counted in clusters: what is  *)
(* inside a cluster of a file is left out.                                 *)
(* Of the nodes, those that no longer agree with their entry (opened twice *)
(* or unlinked while open) may be released but neither written nor cut.    *)
(***************************************************************************)
EXTENDS Integers, Sequences, FiniteSets, FiniteSetsExt, SequencesExt

CONSTANTS
  N,        \* total_clusters
  EPC,      \* directory entries in a cluster
  EPF,      \* table entries in a sector
  Data,     \* the sector of cluster 2
  W,        \* sector numbers that fit dir_entry_idx: 2^16
  Name,     \* names of files
  Long,     \* those that do not fit 8.3 and need an LFN entry in front
  Handle,   \* who may hold a node
  MaxSize,  \* bound: the largest size in clusters
  MaxCalls, \* bound: how many calls change the volume
  Images    \* bound: the volumes that are mounted, [fat, ent] each

ASSUME VolumeAssumption ==
  /\ N \in Nat \ {0} /\ EPC \in Nat \ {0, 1} /\ MaxSize \in Nat /\ MaxCalls \in Nat
  /\ Long \subseteq Name
  /\ EPF \in Nat \ {0} /\ Data \in Nat \ {0} /\ W \in Nat \ {0}

Cluster == 2 .. N + 1
Root == 2
FREE == 0
EOC == N + 2

VARIABLES
  mem,      \* fat32_priv_t: fat (the cache), dirty, next, free
  disk,     \* fat1, fat2, info (FSInfo), and ent[c][i], the entries
  node,     \* the node each handle holds, NoNode if none
  pending,  \* what the current call has still to do
  busy,     \* history: the entries the current or interrupted call is about
  harm,     \* history: which of the events below have happened
  calls     \* how many calls there have been

vars == <<mem, disk, node, pending, busy, harm, calls>>

\* What can happen to a volume that later states must be read against:
\* a failed write, a crash, a size recorded beyond the chain, an entry
\* written by a node that does not own it, a run of entries that leaves the
\* directory, an entry sought in another sector than its own, a cluster
\* taken and no memory for the rest of the call.
Harm == {"io", "crash", "full", "stale", "stray", "far", "nomem"}

END == [kind |-> "end"]
DEL == [kind |-> "del"]
Lfn(nm) == [kind |-> "lfn", name |-> nm]
Entry(nm, dir, first, size) ==
  [kind |-> "entry", name |-> nm, dir |-> dir, first |-> first, size |-> size]
Dot == [kind |-> "dot"]
NoNode == [at |-> <<0, 0>>, first |-> 0, size |-> 0, dirty |-> FALSE]

-----------------------------------------------------------------------------
(* The table                                                               *)

Chain(f, c) ==
  LET reach[n \in 0 .. N] ==
        IF n = 0 THEN {c} \cap Cluster
        ELSE reach[n - 1] \cup ({f[x] : x \in reach[n - 1]} \cap Cluster)
  IN reach[N]

ChainSeq(f, c) ==
  LET at[n \in 1 .. N] ==
        IF n = 1 THEN c
        ELSE IF at[n - 1] \in Cluster THEN f[at[n - 1]] ELSE EOC
  IN [n \in 1 .. Cardinality(Chain(f, c)) |-> at[n]]

NoRoom(m) == \A c \in Cluster : m.fat[c] # FREE

\* The search starts at next_free_cluster and wraps round; 0: none is free.
NextFree(m) ==
  LET free == {c \in Cluster : m.fat[c] = FREE} IN
  IF NoRoom(m) THEN 0
  ELSE IF \E c \in free : c >= m.next THEN Min({c \in free : c >= m.next})
  ELSE Min(free)

SetEntry(m, c, value) == [m EXCEPT !.fat[c] = value, !.dirty = TRUE]

AllocCluster(m) ==
  LET c == NextFree(m) IN
  [SetEntry(m, c, EOC) EXCEPT !.next = c + 1, !.free = IF @ > 0 THEN @ - 1 ELSE 0]

\* The chain that starts at first (0: none) with one cluster more, if any
\* is free: the table and the first cluster.
Extended(m, first) ==
  IF NoRoom(m) THEN [m |-> m, first |-> first]
  ELSE LET c == NextFree(m)
           old == ChainSeq(m.fat, first)
       IN IF first \notin Cluster THEN [m |-> AllocCluster(m), first |-> c]
          ELSE [m |-> SetEntry(AllocCluster(m), Last(old), c), first |-> first]

Longer(g, n) ==
  IF Cardinality(Chain(g.m.fat, g.first)) >= n THEN g ELSE Extended(g.m, g.first)

\* ... with clusters added until it has n of them or none is free.
Grown(m, first, n) ==
  LET grow[k \in 0 .. N] ==
        IF k = 0 THEN [m |-> m, first |-> first] ELSE Longer(grow[k - 1], n)
  IN grow[N]

\* Mutant of FreeChain: only the first cluster is given back.
FreeChainHead(m, c) ==
  IF c \notin Cluster THEN m
  ELSE [m EXCEPT !.fat[c] = FREE, !.dirty = TRUE, !.free = @ + 1]

FreeChain(m, c) ==
  IF c \notin Cluster THEN m
  ELSE [m EXCEPT !.fat = [x \in Cluster |->
                           IF x \in Chain(m.fat, c) THEN FREE ELSE @[x]],
                 !.dirty = TRUE,
                 !.free = @ + Cardinality(Chain(m.fat, c)),
                 !.next = Min(Chain(m.fat, c) \cup {@})]

-----------------------------------------------------------------------------
(* The root directory                                                      *)

\* The positions of a directory, in reading order.
Slots(f, dir) ==
  LET cs == ChainSeq(f, dir) IN
  [k \in 1 .. Len(cs) * EPC |-> <<cs[((k - 1) \div EPC) + 1], ((k - 1) % EPC) + 1>>]

At(d, s) == d.ent[s[1]][s[2]]

\* What fat_dir_read_entry returns of dir: nothing from the first END on, and never
\* the last entry of the last cluster, which it passes before it copies.
Readable(f, d, dir) ==
  LET s == Slots(f, dir) IN
  {k \in 1 .. Len(s) - 1 : \A j \in 1 .. k : At(d, s[j]) # END}

\* What readdir lists: neither ".", "..", LFN nor deleted entries.
Listed(f, d, dir) ==
  {k \in Readable(f, d, dir) : At(d, Slots(f, dir)[k]).kind = "entry"}

\* The position of an entry called nm, <<0, 0>> if it is not found: a long
\* name is known only by the LFN entry read just before.
Find(f, d, nm) ==
  LET s == Slots(f, Root)
      named == {k \in Listed(f, d, Root) :
                  /\ At(d, s[k]).name = nm
                  /\ nm \in Long => k > 1 /\ At(d, s[k - 1]) = Lfn(nm)}
  IN IF named = {} THEN <<0, 0>> ELSE s[Min(named)]

Width(nm) == IF nm \in Long THEN 2 ELSE 1

\* The last position of the first run of deleted entries nm fits in.
Runs(f, d, nm) ==
  LET s == Slots(f, Root) IN
  {k \in Readable(f, d, Root) : k >= Width(nm)
                          /\ \A j \in 0 .. Width(nm) - 1 : At(d, s[k - j]) = DEL}

\* The writer goes on in the next sector of the disk, whatever the chain says.
After(s) == IF s[2] < EPC THEN <<s[1], s[2] + 1>> ELSE <<s[1] + 1, 1>>

\* Where the entry at s is sought: dir_entry_idx, (lba << 16) | index in 32
\* bits, has room for W sectors.  The place may be outside the clusters: what
\* an update does there, to the tables or the boot sector, is left out.
Packed(s) == <<((Data + s[1] - 2) % W) - Data + 2, s[2]>>

-----------------------------------------------------------------------------
(* What a call leaves to do                                                *)

Zero(c) == [op |-> "zero", c |-> c]
Put(s, e, undo) == [op |-> "put", at |-> s, entry |-> e, undo |-> undo]
Update(s, first, size) == [op |-> "update", at |-> s, first |-> first, size |-> size]
Delete(from, to) == [op |-> "delete", from |-> from, to |-> to]

\* An LFN entry and its entry are deleted sector by sector; they are side by
\* side, so that two sectors are enough.
Deletes(from, to) ==
  IF from[1] = to[1] THEN <<Delete(from, to)>>
  ELSE <<Delete(from, <<from[1], EPC>>), Delete(<<to[1], 1>>, to)>>

Hold(h, n) == [op |-> "hold", h |-> h, node |-> n]

\* fat_flush_fat writes nothing if the cache is clean; fat_write_fsinfo does.
Flush(dirty) ==
  (IF dirty THEN <<[op |-> "fat1"], [op |-> "fat2"]>> ELSE <<>>)
  \o <<[op |-> "info"]>>

Mounted(d) ==
  [fat |-> d.fat1, dirty |-> FALSE, next |-> d.info.next, free |-> d.info.free]

Init ==
  \E v \in Images :
    LET free == Cardinality({c \in Cluster : v.fat[c] = FREE}) IN
    /\ disk = [fat1 |-> v.fat, fat2 |-> v.fat, ent |-> v.ent,
               info |-> [next |-> 2, free |-> free]]
    /\ mem = Mounted(disk)
    /\ node = [h \in Handle |-> NoNode]
    /\ pending = <<>> /\ busy = {} /\ harm = {} /\ calls = 0

\* Bound: no call starts after any of the events but a size too large.
Idle == pending = <<>> /\ harm \subseteq {"full"}

Call(m, todo, about) ==
  /\ calls < MaxCalls /\ calls' = calls + 1
  /\ mem' = m /\ pending' = todo /\ busy' = about
  /\ UNCHANGED disk

Lookup(h, nm) ==
  LET s == Find(mem.fat, disk, nm) IN
  /\ Idle /\ node[h] = NoNode /\ s # <<0, 0>>
  /\ node' = [node EXCEPT ![h] = [at |-> s, first |-> At(disk, s).first,
                                  size |-> At(disk, s).size, dirty |-> FALSE]]
  /\ UNCHANGED <<mem, disk, pending, busy, harm, calls>>

\* fat_dir_add_entry in the root: where the entries go, the memory after,
\* the writes.  The writer of entries returns at the first that fails.
AddEntry(m, nm, dir, first) ==
  LET s == Slots(m.fat, Root)
      runs == Runs(m.fat, disk, nm)
      new == NextFree(m)
      run == runs # {}
      from == IF run THEN s[Min(runs) - Width(nm) + 1] ELSE <<new, 1>>
      to == IF nm \in Long THEN After(from) ELSE from
  IN [ok |-> run \/ ~NoRoom(m),
      m |-> IF run THEN m ELSE Extended(m, Root).m,
      stray |-> run /\ to # s[Min(runs)],
      at |-> to,
      todo |-> (IF run THEN <<>> ELSE <<Zero(new)>>)
               \o (IF nm \in Long THEN <<Put(from, Lfn(nm), first)>> ELSE <<>>)
               \o <<Put(to, Entry(nm, dir, first, 0), first)>>]

\* A chain that gets no buffer to fill its new cluster with: the cluster is
\* freed again, but the link to it stays, and so does the count.
Unfilled(m, first) ==
  IF NoRoom(m) THEN m ELSE SetEntry(Extended(m, first).m, NextFree(m), FREE)

\* "." or ".." in the new directory c0.  It looks for a run of deleted
\* entries, finds the end of the empty directory, and gets a cluster of its
\* own; no: unless there is no buffer to fill it with.
Dotted(m, c0, no) ==
  LET new == NextFree(m) IN
  [m |-> IF no THEN Unfilled(m, c0) ELSE Extended(m, c0).m,
   todo |-> IF no \/ NoRoom(m) THEN <<>>
            ELSE <<Zero(new), Put(<<new, 1>>, Dot, 0)>>]

\* The cluster of a new directory and its two entries.
MadeDir(m, no) ==
  LET c0 == NextFree(m)
      d1 == Dotted(AllocCluster(m), c0, no = ".")
      d2 == Dotted(d1.m, c0, no = "..")
  IN [m |-> d2.m, first |-> c0, todo |-> <<Zero(c0)>> \o d1.todo \o d2.todo]

Begin(type, no) ==
  IF type = "dir" THEN MadeDir(mem, no)
  ELSE [m |-> mem, first |-> 0, todo |-> <<>>]

\* The entry in the root, the flush, and the node if there is memory for it.
Finish(h, nm, type, made, event) ==
  LET add == AddEntry(made.m, nm, type = "dir", made.first)
      new == [NoNode EXCEPT !.at = add.at, !.first = made.first]
  IN IF add.ok
     THEN /\ add.at[1] \in Cluster  \* bound: no run leaves the disk
          /\ \E held \in {<<>>, <<Hold(h, new)>>} :
               Call(add.m, made.todo \o add.todo \o Flush(add.m.dirty) \o held,
                    {add.at})
          /\ harm' = harm \cup event \cup (IF add.stray THEN {"stray"} ELSE {})
     ELSE /\ Call(FreeChain(made.m, made.first), made.todo, {})
          /\ harm' = harm \cup event

\* vfs_open creates a name that lookup has not given it: also one that is
\* there, if there was no memory for its node.
Create(h, nm, type) ==
  /\ Idle /\ node[h] = NoNode
  /\ type = "dir" => ~NoRoom(mem)
  /\ Finish(h, nm, type, Begin(type, "none"), {})
  /\ UNCHANGED node

\* The same, with no buffer to fill the cluster of the directory, of "." or
\* "..", or of the entry in the root.
CreateNoMem(h, nm, type) ==
  /\ Idle /\ node[h] = NoNode
  /\ type = "dir" => ~NoRoom(mem)
  /\ \/ /\ type = "dir"
        /\ Call(SetEntry(AllocCluster(mem), NextFree(mem), FREE), <<>>, {})
        /\ harm' = harm \cup {"nomem"}
     \/ /\ type = "dir"
        /\ \E no \in {".", ".."} : Finish(h, nm, type, Begin(type, no), {"nomem"})
     \/ LET made == Begin(type, "none") IN
        /\ Runs(made.m.fat, disk, nm) = {} /\ ~NoRoom(made.m)
        /\ Call(FreeChain(Unfilled(made.m, Root), made.first), made.todo, {})
        /\ harm' = harm \cup {"nomem"}
  /\ UNCHANGED node

Agrees(h) ==
  /\ node[h] # NoNode
  /\ LET e == At(disk, node[h].at) IN
     e.kind = "entry" /\ e.first = node[h].first /\ e.size = node[h].size

Far(s) == IF Packed(s) = s THEN {} ELSE {"far"}

\* The node's new first cluster and size, the entry and the table follow.
Save(h, m, first, size) ==
  /\ node' = [node EXCEPT ![h] = [@ EXCEPT !.first = first, !.size = size,
                                           !.dirty = TRUE]]
  /\ Call(m, <<Update(Packed(node[h].at), first, size)>> \o Flush(m.dirty),
          {node[h].at})
  /\ harm' = harm \cup Far(node[h].at)
             \cup (IF size > Cardinality(Chain(m.fat, first))
                   THEN {"full"} ELSE {})

\* How much of n clusters from offset on a read returns: it ends with the
\* size or with the chain.
ReadLength(f, first, size, offset, n) ==
  Max({0, Min({n, size - offset, Cardinality(Chain(f, first)) - offset})})

\* n clusters from offset on: the chain is followed, and extended, as far as
\* there is room.  If nothing is left the call records what it has reached.
Write(h, offset, n) ==
  LET g == Grown(mem, node[h].first, offset + n)
      room == Cardinality(Chain(g.m.fat, g.first))
      written == IF room > offset THEN Min({n, room - offset}) ELSE 0
  IN /\ Idle /\ Agrees(h)
     /\ ~At(disk, node[h].at).dir
     /\ g.first # 0
     /\ Save(h, g.m, g.first, Max({node[h].size, offset + written}))

\* There is no buffer for the data: what the chain was extended by up to
\* offset stays, and the node's first cluster; nothing is written.
WriteNoMem(h, offset) ==
  LET g == Grown(mem, node[h].first, offset + 1) IN
  /\ Idle /\ Agrees(h)
  /\ ~At(disk, node[h].at).dir
  /\ g.m # mem /\ Cardinality(Chain(g.m.fat, g.first)) > offset
  /\ node' = [node EXCEPT ![h].first = g.first]
  /\ Call(g.m, <<>>, {})
  /\ harm' = harm \cup {"nomem"}

\* Mutant of Cut: the last cluster kept still points to the first one freed.
CutDangling(m, first, size) ==
  LET cs == ChainSeq(m.fat, first) IN
  IF size >= Len(cs) THEN m ELSE FreeChain(m, cs[size + 1])

\* The chain after its first size clusters is given back.
Cut(m, first, size) ==
  LET cs == ChainSeq(m.fat, first) IN
  IF size >= Len(cs) THEN m
  ELSE SetEntry(FreeChain(m, cs[size + 1]), cs[size], EOC)

Truncate(h, size) ==
  /\ Idle /\ Agrees(h)
  /\ \/ /\ size = 0
        /\ Save(h, FreeChain(mem, node[h].first), 0, 0)
     \/ /\ size > 0 /\ size < node[h].size
        /\ Save(h, Cut(mem, node[h].first, size), node[h].first, size)
     \/ /\ size > 0 /\ size >= node[h].size
        /\ LET g == Grown(mem, node[h].first, size) IN
           /\ g.first # 0
           /\ Save(h, g.m, g.first, size)

\* The LFN entry goes with the entry it belongs to.
Unlink(nm) ==
  LET s == Find(mem.fat, disk, nm)
      m == FreeChain(mem, At(disk, s).first)
      slots == Slots(mem.fat, Root)
      k == CHOOSE k \in DOMAIN slots : slots[k] = s
  IN /\ Idle /\ s # <<0, 0>>
     /\ At(disk, s).dir => Listed(mem.fat, disk, At(disk, s).first) = {}
     /\ Call(m, Deletes(IF nm \in Long THEN slots[k - 1] ELSE s, s)
                \o Flush(m.dirty), {s})
     /\ UNCHANGED <<node, harm>>

\* What sync and the last release of a dirty node do.
WriteBack(h) ==
  IF node[h].dirty
  THEN /\ Call(mem, <<Update(Packed(node[h].at), node[h].first, node[h].size)>>
                    \o Flush(mem.dirty), {node[h].at})
       /\ harm' = harm \cup Far(node[h].at) \cup (IF Agrees(h) THEN {} ELSE {"stale"})
  ELSE UNCHANGED <<mem, disk, pending, busy, harm, calls>>

Sync(h) ==
  /\ pending = <<>> /\ harm \subseteq {"io", "full"} /\ node[h] # NoNode
  /\ WriteBack(h)
  /\ node' = [node EXCEPT ![h].dirty = FALSE]

Release(h) ==
  /\ Idle /\ node[h] # NoNode
  /\ WriteBack(h)
  /\ node' = [node EXCEPT ![h] = NoNode]

Umount ==
  /\ Idle /\ \A h \in Handle : node[h] = NoNode
  /\ Call(mem, Flush(mem.dirty) \o <<[op |-> "mount"]>>, {})
  /\ UNCHANGED <<node, harm>>

-----------------------------------------------------------------------------
(* The sectors                                                             *)

\* The positions of one run of entries on the disk.
Between(from, to) ==
  {s \in Cluster \X (1 .. EPC) :
     /\ s[1] * EPC + s[2] >= from[1] * EPC + from[2]
     /\ s[1] * EPC + s[2] <= to[1] * EPC + to[2]}

Written(m, d, w) ==
  CASE w.op = "zero" -> [d EXCEPT !.ent[w.c] = [i \in 1 .. EPC |-> END]]
    [] w.op = "put" -> [d EXCEPT !.ent[w.at[1]][w.at[2]] = w.entry]
    [] w.op = "update" ->
         IF w.at \notin Cluster \X (1 .. EPC) \/ At(d, w.at).kind # "entry" THEN d
         ELSE [d EXCEPT !.ent[w.at[1]][w.at[2]].first = w.first,
                        !.ent[w.at[1]][w.at[2]].size = w.size]
    [] w.op = "delete" ->
         [d EXCEPT !.ent = [c \in Cluster |-> [i \in 1 .. EPC |->
                             IF <<c, i>> \in Between(w.from, w.to) THEN DEL
                             ELSE @[c][i]]]]
    [] w.op = "fat1" -> [d EXCEPT !.fat1 = m.fat]
    [] w.op = "fat2" -> [d EXCEPT !.fat2 = m.fat]
    [] w.op = "info" -> [d EXCEPT !.info = [next |-> m.next, free |-> m.free]]
    [] OTHER -> d

\* Mutant of Cleaned: the cache is clean once the first copy is attempted.
CleanedEarly(m, w) == [m EXCEPT !.dirty = @ /\ w.op \notin {"fat1", "fat2"}]

\* The cache is clean once the second copy has been tried.
Cleaned(m, w) == [m EXCEPT !.dirty = @ /\ w.op # "fat2"]

\* A copy of the table of which only some sectors have been written.
Mixed(old, new) ==
  {[c \in Cluster |-> IF c \div EPF \in S THEN new[c] ELSE old[c]] :
     S \in SUBSET {c \div EPF : c \in Cluster}}

\* The disks a write that does not end may leave.
Torn(m, d, w) ==
  CASE w.op = "fat1" -> {[d EXCEPT !.fat1 = t] : t \in Mixed(d.fat1, m.fat)}
    [] w.op = "fat2" -> {[d EXCEPT !.fat2 = t] : t \in Mixed(d.fat2, m.fat)}
    [] OTHER -> {d}

Step ==
  /\ pending # <<>>
  /\ LET w == Head(pending) IN
     /\ disk' = Written(mem, disk, w)
     /\ mem' = IF w.op = "mount" THEN Mounted(disk) ELSE Cleaned(mem, w)
     /\ node' = IF w.op = "hold" THEN [node EXCEPT ![w.h] = w.node] ELSE node
  /\ pending' = Tail(pending)
  /\ busy' = IF Len(pending) = 1 THEN {} ELSE busy
  /\ UNCHANGED <<harm, calls>>

\* What a call goes on with when w has failed.  A failed entry ends create, a
\* failed first copy leaves the second alone, and a failed deletion the next
\* one; every other failure is ignored.
Left(w, rest) ==
  CASE w.op = "put" /\ w.entry # Dot -> <<>>
    [] w.op = "fat1" -> Tail(rest)
    [] w.op = "delete" /\ rest # <<>> /\ rest[1].op = "delete" -> Tail(rest)
    [] OTHER -> rest

\* Bound: one write fails.
Fail ==
  /\ pending # <<>> /\ "io" \notin harm
  /\ LET w == Head(pending) IN
     /\ w.op \notin {"hold", "mount"}
     /\ disk' \in Torn(mem, disk, w)
     /\ mem' = IF w.op = "put" THEN FreeChain(mem, w.undo) ELSE Cleaned(mem, w)
     /\ pending' = Left(w, Tail(pending))
     /\ busy' = IF pending' = <<>> THEN {} ELSE busy
  /\ harm' = harm \cup {"io"}
  /\ UNCHANGED <<node, calls>>

\* The power goes; the volume is mounted again.  Bound: once.
Crash ==
  /\ pending # <<>> /\ "crash" \notin harm
  /\ disk' \in Torn(mem, disk, Head(pending))
  /\ mem' = Mounted(disk') /\ pending' = <<>>
  /\ node' = [h \in Handle |-> NoNode]
  /\ harm' = harm \cup {"crash"}
  /\ UNCHANGED <<busy, calls>>

Next ==
  \/ \E h \in Handle, nm \in Name :
       \/ Lookup(h, nm)
       \/ \E type \in {"file", "dir"} : Create(h, nm, type) \/ CreateNoMem(h, nm, type)
  \/ \E h \in Handle :
       \/ \E o \in 0 .. MaxSize - 1 :
            (\E n \in 1 .. MaxSize - o : Write(h, o, n)) \/ WriteNoMem(h, o)
       \/ \E size \in 0 .. MaxSize : Truncate(h, size)
       \/ Sync(h)
       \/ Release(h)
  \/ \E nm \in Name : Unlink(nm)
  \/ Umount
  \/ Step
  \/ Fail
  \/ Crash

Spec == Init /\ [][Next]_vars

-----------------------------------------------------------------------------
(* Which volumes are mounted                                               *)

Place == Cluster \X (1 .. EPC)
Table == [Cluster -> Cluster \cup {FREE, EOC}]
Content ==
  {END, DEL, Dot} \cup {Lfn(nm) : nm \in Name}
  \cup {Entry(nm, dir, first, size) : nm \in Name, dir \in BOOLEAN,
                                     first \in Cluster \cup {0}, size \in 0 .. MaxSize}
Contents == [Cluster -> [1 .. EPC -> Content]]

Live(d) == {s \in Place : At(d, s).kind = "entry"}
ChainOf(f, d, s) == Chain(f, At(d, s).first)

\* p is the way from first to the end of its chain: it meets no cluster twice.
Path(f, first, p) ==
  /\ first = IF p = <<>> THEN 0 ELSE p[1]
  /\ \A i, j \in 1 .. Len(p) : p[i] = p[j] => i = j
  /\ \A i \in 1 .. Len(p) :
       p[i] \in Cluster /\ f[p[i]] = IF i < Len(p) THEN p[i + 1] ELSE EOC

\* The clusters in use are those of chains that start at the values of firsts,
\* and each is in one of them.
Tabled(f, firsts) ==
  /\ \A o \in DOMAIN firsts : Path(f, firsts[o], ChainSeq(f, firsts[o]))
  /\ \A o, q \in DOMAIN firsts :
       o # q => Chain(f, firsts[o]) \cap Chain(f, firsts[q]) = {}
  /\ {c \in Cluster : f[c] # FREE} = UNION {Chain(f, firsts[o]) : o \in DOMAIN firsts}

\* The first clusters of the root directory, at <<0, 0>>, and of all entries.
Firsts(d) ==
  [s \in Live(d) \cup {<<0, 0>>} |-> IF s = <<0, 0>> THEN Root ELSE At(d, s).first]

\* All entries are in the root.  The writer of entries leaves a long name and
\* its entry side by side on the disk, also where the root goes on elsewhere.
Consistent(f, d) ==
  /\ Tabled(f, Firsts(d))
  /\ \A s \in Live(d) : s[1] \in Chain(f, Root)
  /\ \A c \in Chain(f, Root), nm \in Long :
       /\ f[c] \in Cluster /\ At(d, <<c, EPC>>) = Lfn(nm)
       /\ At(d, <<f[c], 1>>).kind = "entry" /\ At(d, <<f[c], 1>>).name = nm
       => f[c] = c + 1

\* No size goes beyond its chain.
Sized(f, d) == \A s \in Live(d) : At(d, s).size <= Cardinality(ChainOf(f, d, s))

ASSUME ImagesAssumption ==
  \A v \in Images : /\ v.fat \in Table /\ v.ent \in Contents
                    /\ Consistent(v.fat, v) /\ Sized(v.fat, v)

-----------------------------------------------------------------------------
(* Properties                                                              *)

\* A crash between any two writes or within one harms only the entry the call
\* was about: every other entry on the disk has a chain of its own in the first
\* copy of the table, without a free cluster, and can be read in whole.
CrashContained ==
  harm \subseteq {"full", "crash"} =>
    \A s \in Live(disk) \ busy :
      LET chain == ChainOf(disk.fat1, disk, s) IN
      /\ \A c \in chain : disk.fat1[c] # FREE
      /\ chain \cap Chain(disk.fat1, Root) = {}
      /\ \A t \in Live(disk) \ {s} :
           chain \cap ChainOf(disk.fat1, disk, t) = {}
      /\ "full" \in harm
         \/ ReadLength(disk.fat1, At(disk, s).first, At(disk, s).size, 0, MaxSize)
              = At(disk, s).size

\* Between calls no cluster is lost: every cluster in use belongs to the root
\* or to an entry of the root, free_cluster_count and FSInfo count the others,
\* and the two copies are one.
NoneLost ==
  pending = <<>> /\ harm \subseteq {"full"} =>
    LET used == {c \in Cluster : mem.fat[c] # FREE} IN
    /\ used = Chain(mem.fat, Root)
              \cup UNION {ChainOf(mem.fat, disk, s) : s \in Live(disk)}
    /\ mem.free = N - Cardinality(used) /\ disk.info.free = mem.free
    /\ disk.fat1 = mem.fat /\ disk.fat2 = mem.fat

\* Whatever fails, a cache that is not on the disk is still marked dirty, so
\* that the next flush tries again.  Excepted: an update that went far may
\* have gone to the table.
DirtyUntilWritten ==
  pending = <<>> /\ "far" \notin harm /\ disk.fat1 # mem.fat => mem.dirty

\* An entry that is updated is the one the node was made for, as the comments
\* on dir_entry_idx have it.  Not so where the sector's number does not fit.
UpdateInPlace ==
  \A k \in DOMAIN pending : pending[k].op = "update" => pending[k].at \in busy

=============================================================================
