--------------------------------- MODULE Sfs ---------------------------------
(***************************************************************************)
(* The SFS file system (kern/fs/sfs) and the reference counts of its       *)
(* vnodes (kern/vfs/vnode.c).                                              *)
(*                                                                         *)
(* SFS has one directory, the root.  Operations hold vfs_biglock from      *)
(* beginning to end, so each is one step; vnode_decref does not, and       *)
(* decides to reclaim a vnode some time before sfs_reclaim gets the lock.  *)
(* Any read or write of a block can fail once sfs_rwblock has given up.    *)
(*                                                                         *)
(* An operation on the state s of the file system is the set of its        *)
(* outcomes: whether it succeeds, and the state it leaves.                 *)
(*                                                                         *)
(* The root's vnode stays loaded (the file system is somebody's working    *)
(* directory), and a file has one direct and one indirect block, with room *)
(* for one block number.                                                   *)
(***************************************************************************)
EXTENDS Naturals, Sequences, FiniteSets, FiniteSetsExt, TLC

CONSTANTS
  Thread,
  Name,
  Block,        \* the blocks of the disk, but for superblock, freemap and root inode
  DirPerBlock,  \* directory entries in a block
  DirBlocks,    \* blocks a directory can have
  MaxFaults     \* reads and writes that fail

ASSUME SfsAssumption ==
  /\ Block \subseteq Nat \ {0} /\ IsFiniteSet(Block)
  /\ DirPerBlock \in Nat \ {0} /\ DirBlocks \in Nat /\ MaxFaults \in Nat

VARIABLES
  fs,      \* freemap; directory and its blocks; the disk's inodes and indirect
           \* blocks; the vnodes in memory (refcount 0: not loaded; stuck: reclaim
           \* failed); blocks no one remembers; reads and writes that failed;
           \* panicked
  file,    \* the file each thread has a reference to, 0 for none
  pc       \* "idle", or "reclaim" when it has decided to reclaim that file

vars == <<fs, file, pc>>

NoEntry == [name |-> "", ino |-> 0]
ZeroInode == [type |-> "INVAL", linkcount |-> 0, direct |-> 0, indirect |-> 0]
NoVnode == [refcount |-> 0, i |-> ZeroInode, dirty |-> FALSE, stuck |-> FALSE]

Init ==
  /\ fs = [freemap |-> {}, dir |-> <<>>, dirblock |-> [k \in 0 .. DirBlocks - 1 |-> 0],
           inode |-> [b \in Block |-> ZeroInode], idblock |-> [b \in Block |-> 0],
           vnode |-> [b \in Block |-> NoVnode], lost |-> {}, faults |-> 0, panicked |-> "no"]
  /\ file = [t \in Thread |-> 0]
  /\ pc = [t \in Thread |-> "idle"]

Ok(s) == [ok |-> TRUE, s |-> s]
Fail(s) == [ok |-> FALSE, s |-> s]
Got(s, val) == [ok |-> TRUE, s |-> s, val |-> val]

\* A read or write fails (or there is no memory), leaving s.
IoError(s) == IF s.faults < MaxFaults THEN {Fail([s EXCEPT !.faults = @ + 1])} ELSE {}

\* The outcomes of F, then, where it succeeds, of G.
Then(F, G(_)) == UNION {IF o.ok THEN G(o.s) ELSE {o} : o \in F}

\* The same for an F that returns a value.
With(F, G(_, _)) == UNION {IF o.ok THEN G(o.s, o.val) ELSE {o} : o \in F}

Panic(s, why) == [s EXCEPT !.panicked = why]

\* sv_dirty is set.  What the disk holds of the inode is written before it is read
\* again, and left out.
Dirty(s, ino) == [s EXCEPT !.vnode[ino].dirty = TRUE, !.inode[ino] = ZeroInode]

---------------------------------------------------------------------------
(* sfs_balloc.c, sfs_bmap.c                                                *)

\* A block that could not be cleared is given back.
Unmark(s, b) == s

\* sfs_balloc: the first free block, cleared.
Balloc(s) ==
  LET free == Block \ s.freemap
      b == Min(free)
  IN IF free = {} THEN {Fail(s)}
     ELSE IoError(Unmark(s, b)) \cup
          {Got([s EXCEPT !.freemap = @ \cup {b}, !.inode[b] = ZeroInode,
                         !.idblock[b] = 0], b)}

\* sfs_bfree.  What a free block holds is cleared before it is used, and left out.
Bfree(s, b) == [s EXCEPT !.freemap = @ \ {b}, !.inode[b] = ZeroInode, !.idblock[b] = 0]

\* The block a file or the directory has must be marked used.
Used(s, b) == IF b \in s.freemap THEN Ok(s) ELSE Fail(Panic(s, "Data block marked free"))

\* sfs_bmap with doalloc, for the direct block of a file ...
BmapDirect(s, ino) ==
  IF s.vnode[ino].i.direct # 0 THEN {Used(s, s.vnode[ino].i.direct)}
  ELSE With(Balloc(s), LAMBDA u, b : {Ok(Dirty([u EXCEPT !.vnode[ino].i.direct = b], ino))})

\* ... and for the block in the indirect one: the number of a new block is only
\* remembered if the indirect block can be written.
BmapIndirect(s, ino) ==
  LET ind == IF s.vnode[ino].i.indirect # 0 THEN IoError(s) \cup {Ok(s)}
             ELSE With(Balloc(s), LAMBDA u, b :
                         {Ok(Dirty([u EXCEPT !.vnode[ino].i.indirect = b], ino))})
      data(u) == LET id == u.vnode[ino].i.indirect
                 IN IF u.idblock[id] # 0 THEN {Used(u, u.idblock[id])}
                    ELSE With(Balloc(u), LAMBDA w, b :
                                {Ok([w EXCEPT !.idblock[id] = b])} \cup
                                IoError([w EXCEPT !.lost = @ \cup {b}]))
  IN Then(ind, data)

\* Mutant: the indirect block is forgotten, not freed.
FreeIndirectNot(s, ino) == [s EXCEPT !.vnode[ino].i.indirect = 0]

FreeIndirect(s, ino) ==
  LET id == s.vnode[ino].i.indirect
  IN [Bfree(IF s.idblock[id] = 0 THEN s ELSE Bfree(s, s.idblock[id]), id)
        EXCEPT !.vnode[ino].i.indirect = 0]

\* sfs_itrunc(sv, 0), the only length it is called with.
Itrunc(s, ino) ==
  LET direct == s.vnode[ino].i.direct
      s1 == IF direct = 0 THEN s
            ELSE Dirty([Bfree(s, direct) EXCEPT !.vnode[ino].i.direct = 0], ino)
  IN IF s.vnode[ino].i.indirect = 0 THEN {Ok(Dirty(s1, ino))}
     ELSE IoError(s1) \cup {Ok(Dirty(FreeIndirect(s1, ino), ino))}

---------------------------------------------------------------------------
(* sfs_inode.c                                                             *)

\* sfs_loadvnode of an inode that is on the disk, or loaded already.
Loadvnode(s, ino) ==
  IF \E b \in Block : s.vnode[b].refcount > 0 /\ b \notin s.freemap
  THEN {Fail(Panic(s, "Found inode in unallocated block"))}
  ELSE IF s.vnode[ino].refcount > 0
  THEN {Ok([s EXCEPT !.vnode[ino].refcount = @ + 1])}
  ELSE IF ino \notin s.freemap
  THEN {Fail(Panic(s, "Tried to load inode from unallocated block"))}
  ELSE IoError(s) \cup
       {IF s.inode[ino].type = "INVAL" THEN Fail(Panic(s, "Invalid inode type"))
        ELSE Ok([s EXCEPT !.vnode[ino] = [NoVnode EXCEPT !.refcount = 1, !.i = s.inode[ino]]])}

\* sfs_makeobj: a block, and a vnode for it.
Makeobj(s) ==
  With(Balloc(s), LAMBDA u, ino :
    IoError(Bfree(u, ino)) \cup
    {Got([u EXCEPT !.vnode[ino] = [NoVnode EXCEPT !.refcount = 1, !.dirty = TRUE,
                                     !.i = [u.inode[ino] EXCEPT !.type = "FILE"]]], ino)})

\* sfs_sync_inode
SyncInode(s, ino) ==
  IF ~s.vnode[ino].dirty THEN {Ok(s)}
  ELSE IoError(s) \cup {Ok([s EXCEPT !.inode[ino] = s.vnode[ino].i, !.vnode[ino].dirty = FALSE])}

\* Mutant: nobody looks again whether the vnode has been picked up.
ReclaimUnchecked(s, ino) == TRUE

\* The reference count is looked at again, with the lock.
LastReference(s, ino) == s.vnode[ino].refcount = 1

\* sfs_reclaim.  When the disk fails the vnode stays, with a reference nobody has.
Reclaim(s, ino) ==
  LET unlinked == s.vnode[ino].i.linkcount = 0
      trunc == IF unlinked THEN Itrunc(s, ino) ELSE {Ok(s)}
      gone(u) == [(IF unlinked THEN Bfree(u, ino) ELSE u) EXCEPT !.vnode[ino] = NoVnode]
  IN IF ~LastReference(s, ino)
     THEN {[s EXCEPT !.vnode[ino].refcount = @ - 1]}
     ELSE {IF o.ok THEN gone(o.s) ELSE [o.s EXCEPT !.vnode[ino].stuck = TRUE] :
             o \in Then(trunc, LAMBDA u : SyncInode(u, ino))}

\* VOP_DECREF by an operation that holds vfs_biglock.
Decref(s, ino) ==
  IF s.vnode[ino].refcount > 1 THEN {[s EXCEPT !.vnode[ino].refcount = @ - 1]}
  ELSE Reclaim(s, ino)

---------------------------------------------------------------------------
(* sfs_dir.c                                                               *)

Slots(s, name) == {k \in DOMAIN s.dir : s.dir[k].ino # 0 /\ s.dir[k].name = name}

\* sfs_writedir of slot k, numbered from 1: the block is allocated if there is none
\* and must be marked used if there is one; it is read, changed and written.
Writedir(s, k, entry) ==
  LET n == (k - 1) \div DirPerBlock
      bmap == IF s.dirblock[n] # 0 THEN {Used(s, s.dirblock[n])}
              ELSE With(Balloc(s), LAMBDA u, b : {Ok([u EXCEPT !.dirblock[n] = b])})
      write(u) == IoError(u) \cup {Ok([u EXCEPT !.dir = IF k > Len(@) THEN Append(@, entry)
                                                  ELSE [@ EXCEPT ![k] = entry]])}
  IN IF n >= DirBlocks THEN {Fail(s)} ELSE Then(bmap, write)

\* The slot sfs_dir_link takes: the last empty one, or a new one.
LinkSlot(s) ==
  LET empty == {k \in DOMAIN s.dir : s.dir[k].ino = 0}
  IN IF empty = {} THEN Len(s.dir) + 1 ELSE Max(empty)

\* Mutant: the name is not looked up first.
NameExistsNot(s, name) == FALSE

NameExists(s, name) == Slots(s, name) # {}

\* sfs_dir_link; reading the directory can fail too.
DirLink(s, name, ino) ==
  IF NameExists(s, name) THEN {Fail(s)}
  ELSE IoError(s) \cup Writedir(s, LinkSlot(s), [name |-> name, ino |-> ino])

DirUnlink(s, k) == Writedir(s, k, NoEntry)

\* sfs_lookonce: the vnode and the slot.
Lookonce(s, name) ==
  LET k == Min(Slots(s, name))
      ino == s.dir[k].ino
  IN IF Slots(s, name) = {} THEN {Fail(s)}
     ELSE IF Cardinality(Slots(s, name)) > 1 THEN {Fail(Panic(s, "found == 0"))}
     ELSE Then(Loadvnode(s, ino),
               LAMBDA u : IF u.vnode[ino].i.linkcount = 0
                          THEN {Fail(Panic(u, "name has linkcount 0"))}
                          ELSE {Got(u, [ino |-> ino, slot |-> k])})

---------------------------------------------------------------------------
(* sfs_vnops.c                                                             *)

\* Mutant: the inode is not marked dirty.
LinkcountClean(s, ino, n) == [s EXCEPT !.vnode[ino].i.linkcount = n]

\* The link count is changed, and the inode marked dirty.
Linkcount(s, ino, n) ==
  Dirty([s EXCEPT !.vnode[ino].i.linkcount = n], ino)

Links(s, ino) == s.vnode[ino].i.linkcount

\* sfs_lookup
Lookup(s, name) == With(Lookonce(s, name), LAMBDA u, found : {Got(u, found.ino)})

\* sfs_creat, without excl: a file that exists is opened.
CreatExisting(s, name) ==
  LET ino == s.dir[Min(Slots(s, name))].ino
  IN Then(Loadvnode(s, ino), LAMBDA u : {Got(u, ino)})

\* A new file that cannot be linked is dropped.
CreatNew(s, name) ==
  With(Makeobj(s), LAMBDA u, ino :
    UNION {IF o.ok THEN {Got(Linkcount(o.s, ino, Links(o.s, ino) + 1), ino)}
           ELSE {Fail(d) : d \in Decref(o.s, ino)} : o \in DirLink(u, name, ino)})

Creat(s, name) ==
  IF NameExists(s, name) THEN CreatExisting(s, name) ELSE CreatNew(s, name)

\* sfs_link
Link(s, name, ino) ==
  {IF o.ok THEN Ok(Linkcount(o.s, ino, Links(o.s, ino) + 1)) ELSE o : o \in DirLink(s, name, ino)}

\* sfs_remove
Remove(s, name) ==
  With(Lookonce(s, name), LAMBDA u, victim :
    UNION {LET w == IF o.ok THEN Linkcount(o.s, victim.ino, Links(o.s, victim.ino) - 1) ELSE o.s
           IN {Ok(d) : d \in Decref(w, victim.ino)} : o \in DirUnlink(u, victim.slot)})

\* sfs_rename: the new name, then the old one; "try to undo what we already did".
RenameUndo(s, ino, k) ==
  UNION {IF o.ok THEN Decref([o.s EXCEPT !.vnode[ino].i.linkcount = @ - 1], ino)
         ELSE {Panic(o.s, "rename: Cannot recover")} : o \in DirUnlink(s, k)}

RenameOld(s, ino, k1, k2) ==
  UNION {IF o.ok THEN Decref(Linkcount(o.s, ino, Links(o.s, ino) - 1), ino)
         ELSE RenameUndo(o.s, ino, k2) : o \in DirUnlink(s, k1)}

Rename(s, n1, n2) ==
  With(Lookonce(s, n1), LAMBDA u, g1 :
    UNION {{Ok(d) : d \in IF o.ok THEN RenameOld(Linkcount(o.s, g1.ino, Links(o.s, g1.ino) + 1),
                                                 g1.ino, g1.slot, LinkSlot(u))
                          ELSE Decref(o.s, g1.ino)} : o \in DirLink(u, n2, g1.ino)})

---------------------------------------------------------------------------
(* What the threads do.                                                    *)

Outcome(S) == \E o \in S : fs' = o.s

\* vfs_open, with and without O_CREAT.
Open(t, name) ==
  /\ pc[t] = "idle" /\ file[t] = 0
  /\ \E o \in Lookup(fs, name) \cup Creat(fs, name) :
       /\ fs' = o.s
       /\ file' = [file EXCEPT ![t] = IF o.ok THEN o.val ELSE 0]
  /\ UNCHANGED pc

RemoveOrRename(t) ==
  /\ pc[t] = "idle"
  /\ \/ \E name \in Name : Outcome(Remove(fs, name))
     \/ \E n1, n2 \in Name : Outcome(Rename(fs, n1, n2))
  /\ UNCHANGED <<file, pc>>

\* On the file the thread has.
OnFile(t) ==
  /\ pc[t] = "idle" /\ file[t] # 0
  /\ \/ Outcome(BmapDirect(fs, file[t]))
     \/ Outcome(BmapIndirect(fs, file[t]))
     \/ Outcome(Itrunc(fs, file[t]))
     \/ \E name \in Name : Outcome(Link(fs, name, file[t]))
  /\ UNCHANGED <<file, pc>>

\* sfs_sync_vnodes: the errors of VOP_FSYNC are not looked at.
Sync ==
  /\ \E W \in SUBSET {b \in Block : fs.vnode[b].refcount > 0 /\ fs.vnode[b].dirty} :
       fs' = [fs EXCEPT !.inode = [b \in Block |-> IF b \in W THEN fs.vnode[b].i ELSE @[b]],
                        !.vnode = [b \in Block |-> IF b \in W
                                                   THEN [@[b] EXCEPT !.dirty = FALSE] ELSE @[b]]]
  /\ UNCHANGED <<file, pc>>

\* vfs_close: vnode_decref, without vfs_biglock.
Close(t) ==
  /\ pc[t] = "idle" /\ file[t] # 0
  /\ \/ /\ fs.vnode[file[t]].refcount > 1
        /\ fs' = [fs EXCEPT !.vnode[file[t]].refcount = @ - 1]
        /\ file' = [file EXCEPT ![t] = 0]
        /\ UNCHANGED pc
     \/ /\ fs.vnode[file[t]].refcount = 1
        /\ pc' = [pc EXCEPT ![t] = "reclaim"]
        /\ UNCHANGED <<fs, file>>

CloseReclaim(t) ==
  /\ pc[t] = "reclaim"
  /\ \E s \in Reclaim(fs, file[t]) : fs' = s
  /\ file' = [file EXCEPT ![t] = 0]
  /\ pc' = [pc EXCEPT ![t] = "idle"]

Next ==
  /\ fs.panicked = "no"
  /\ \/ \E t \in Thread : \/ \E name \in Name : Open(t, name)
                          \/ RemoveOrRename(t) \/ OnFile(t) \/ Close(t) \/ CloseReclaim(t)
     \/ Sync

Spec == Init /\ [][Next]_vars

---------------------------------------------------------------------------
(* Properties.                                                             *)

\* The inode as it stands: the vnode's if it is loaded, else the disk's.
Inode(b) == IF fs.vnode[b].refcount > 0 THEN fs.vnode[b].i ELSE fs.inode[b]

Entries(b) == {k \in DOMAIN fs.dir : fs.dir[k].ino = b}

\* The files: inodes that have a name or are in memory.
Files == {b \in fs.freemap : Entries(b) # {} \/ fs.vnode[b].refcount > 0}

\* The link count of every file is the number of names it has, in memory and, once
\* the vnode is gone, on the disk, whatever failed in creat, link, remove and rename;
\* no name occurs twice.
LinkcountIsNames ==
  /\ \A b \in Files : Inode(b).linkcount = Cardinality(Entries(b))
  /\ \A k \in DOMAIN fs.dir : fs.dir[k].ino # 0 => fs.dir[k].ino \in Files
  /\ \A name \in Name : Cardinality(Slots(fs, name)) <= 1

\* A vnode is in memory as long as somebody has a reference, and its count is that of
\* the references, a thread's that is about to reclaim it included; only a reclaim
\* that failed leaves one more.  (Up to a panic in the middle of an operation.)
RefcountIsReferences ==
  fs.panicked = "no" => \A b \in Block :
    fs.vnode[b].refcount = Cardinality({t \in Thread : file[t] = b})
                           + (IF fs.vnode[b].stuck THEN 1 ELSE 0)

\* The uses of a block: inode of a file, block of one, or block of the directory.
DataOf(b) == LET i == Inode(b)
             IN {<<"direct", i.direct>>, <<"indirect", i.indirect>>} \cup
                (IF i.indirect = 0 THEN {} ELSE {<<"data", fs.idblock[i.indirect]>>})
Uses(b) ==
  (IF b \in Files THEN {<<"inode", b>>} ELSE {}) \cup
  {<<f, role>> \in Files \X {"direct", "indirect", "data"} : <<role, b>> \in DataOf(f)} \cup
  {<<"directory", n>> : n \in {n \in DOMAIN fs.dirblock : fs.dirblock[n] = b}}

\* A block that is marked used has exactly one use and one that is free has none: no
\* block is shared, freed under a file that somebody has open or that has a name, or
\* left marked when its file is gone.  The one exception is a new block whose number
\* could not be written to the indirect block.
BlocksHaveOneUse ==
  \A b \in Block : /\ Cardinality(Uses(b)) = (IF b \in fs.freemap \ fs.lost THEN 1 ELSE 0)
                   /\ b \in fs.lost => b \in fs.freemap

\* The panics of SFS do not happen, but for a rename that can neither be done nor
\* undone.
NoInconsistencyFound == fs.panicked \in {"no", "rename: Cannot recover"}
=============================================================================
