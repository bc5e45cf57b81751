-------------------------- MODULE ArchiveMountProofs --------------------------
(***************************************************************************)
(* Proofs about ArchiveMount, for every archive, index, size and bound: the *)
(* map of an open mount is the file while the file has its inode, what is   *)
(* overlaid belongs to entries that are there, the cache is the list of its *)
(* pages in the order of their use, every state is typed, and what a commit *)
(* leaves.                                                                  *)
(***************************************************************************)
EXTENDS ArchiveMount, SeekIndexProofs

-----------------------------------------------------------------------------
(* The file, its map, and what a commit makes of them. *)

DiskRecord(d)  == d = [ino |-> d.ino, mtime |-> d.mtime, zip |-> d.zip]
MountRecord(m) ==
  m = [phase |-> m.phase, snapshot |-> m.snapshot, archive |-> m.archive,
       image |-> m.image, tick |-> m.tick, stale |-> m.stale, raced |-> m.raced]

Shaped == DiskRecord(disk) /\ (Mounted => MountRecord(mount))

\* A map shows the file while that is the one that was opened.
MapIsFile ==
  Mounted /\ disk.ino = mount.snapshot.ino => mount.archive = disk.zip

\* A FULL commit that succeeds leaves an archive that can be opened.
FullOpens ==
  mount.phase = "committed" /\ mount.mode = "full" => Parse(disk.zip).ok

\* A read goes on only while the mount is open.
ReadsOpen == call.step \in {"look", "fill"} => Mounted

MapInv == Shaped /\ MapIsFile /\ FullOpens /\ ReadsOpen

\* The initial state satisfies the invariant.
LEMMA InitMapInv == Init => MapInv
<1>. SUFFICES ASSUME Init PROVE MapInv
  OBVIOUS
<1>1. PICK s \in Starts : disk = [ino |-> 1, mtime |-> 1, zip |-> s.zip]
  BY DEF Init
<1>2. DiskRecord(disk)
  BY <1>1 DEF DiskRecord
<1>3. mount.phase = "closed" /\ call.step = "idle"
  BY DEF Init, Closed, Idle
<1>. QED
  BY <1>2, <1>3 DEF MapInv, Shaped, MapIsFile, FullOpens, ReadsOpen, Mounted

\* A step that leaves the file and the mount leaves what is known of them.
LEMMA SameMapInv ==
  MapInv /\ UNCHANGED <<disk, mount>> /\ ReadsOpen' => MapInv'
BY DEF MapInv, Shaped, MapIsFile, FullOpens, Mounted, DiskRecord, MountRecord

\* An open maps the file that is there.
LEMMA OpenMapInv == MapInv /\ Open => MapInv'
<1>. SUFFICES ASSUME MapInv, Open PROVE MapInv'
  OBVIOUS
<1>. DEFINE image == ResolveIndex(sidecar, disk.zip)
<1>1. /\ mount' = [phase |-> "open", snapshot |-> disk, archive |-> disk.zip,
                   image |-> image, tick |-> 0, stale |-> FALSE, raced |-> FALSE]
      /\ disk' = disk
  BY DEF Open, OpenOver
<1>. HIDE DEF image
<1>2. MountRecord(mount') /\ mount'.phase = "open" /\ mount'.archive = disk.zip
  BY <1>1 DEF MountRecord
<1>. QED
  BY <1>1, <1>2 DEF MapInv, Shaped, MapIsFile, FullOpens, ReadsOpen, Mounted, DiskRecord

\* Nothing is left of a mount that is closed.
LEMMA CloseMapInv == MapInv /\ Close => MapInv'
<1>. SUFFICES ASSUME MapInv, Close PROVE MapInv'
  OBVIOUS
<1>1. disk' = disk /\ mount'.phase = "closed" /\ call'.step = "idle"
  BY DEF Close, Closed, End, Idle, store
<1>. QED
  BY <1>1 DEF MapInv, Shaped, MapIsFile, FullOpens, ReadsOpen, Mounted, DiskRecord

\* A read of an open mount leaves the file and the mount, but a miss, which
\* changes what the mount remembers of its checks.
LEMMA ReadMapInv ==
  /\ MapInv
  /\ Hit \/ Miss \/ Fill \/ \E n \in Names, r \in Ranges : BeginRead(n, r[1], r[2])
  => MapInv'
<1>. SUFFICES ASSUME MapInv PROVE
       (Hit \/ Miss \/ Fill \/ \E n \in Names, r \in Ranges : BeginRead(n, r[1], r[2]))
       => MapInv'
  OBVIOUS
<1>1. ASSUME Hit PROVE MapInv'
  <2>1. Mounted /\ UNCHANGED <<disk, mount>>
    BY <1>1 DEF Hit, MapInv, ReadsOpen, store
  <2>. QED
    BY <2>1, SameMapInv DEF ReadsOpen, Mounted
<1>2. ASSUME Fill PROVE MapInv'
  <2>1. Mounted /\ UNCHANGED <<disk, mount>>
    BY <1>2 DEF Fill, MapInv, ReadsOpen, store
  <2>. QED
    BY <2>1, SameMapInv DEF ReadsOpen, Mounted
<1>3. ASSUME NEW n, NEW off, NEW len, BeginRead(n, off, len) PROVE MapInv'
  <2>1. Mounted /\ UNCHANGED <<disk, mount>>
    BY <1>3 DEF BeginRead, store
  <2>. QED
    BY <2>1, SameMapInv DEF ReadsOpen, Mounted
<1>4. ASSUME Miss PROVE MapInv'
  <2>1. Mounted /\ disk' = disk /\ \E t, b : mount' = [mount EXCEPT !.tick = t, !.stale = b]
    BY <1>4 DEF Miss, MapInv, ReadsOpen, store
  <2>2. MountRecord(mount)
    BY <2>1 DEF MapInv, Shaped
  <2>3. /\ MountRecord(mount') /\ mount'.phase = mount.phase
        /\ mount'.archive = mount.archive /\ mount'.snapshot = mount.snapshot
    BY <2>1, <2>2 DEF MountRecord
  <2>. QED
    BY <2>1, <2>3 DEF MapInv, Shaped, MapIsFile, FullOpens, ReadsOpen, Mounted, DiskRecord
<1>. QED
  BY <1>1, <1>2, <1>3, <1>4

\* A map follows what is written into its file, and stays behind when the name
\* is given to another one.
LEMMA FileMapInv ==
  ASSUME NEW d, DiskRecord(d), MapInv, FileChanges(d)
  PROVE  MapInv'
<1>1. disk' = d /\ call' = call
  BY DEF FileChanges
<1>2. CASE Mounted
  <2>1. MountRecord(mount)
    BY <1>2 DEF MapInv, Shaped
  <2>2. CASE d.ino # mount.snapshot.ino
    <3>1. mount' = mount
      BY <1>2, <2>2 DEF FileChanges
    <3>. QED
      BY <1>1, <1>2, <2>1, <2>2, <3>1
      DEF MapInv, Shaped, MapIsFile, FullOpens, ReadsOpen, Mounted
  <2>3. CASE d.ino = mount.snapshot.ino
    <3>1. \E b : mount' = [mount EXCEPT !.archive = d.zip, !.raced = b]
      BY <1>2, <2>3 DEF FileChanges
    <3>2. /\ MountRecord(mount') /\ mount'.phase = mount.phase
          /\ mount'.archive = d.zip
      BY <2>1, <3>1 DEF MountRecord
    <3>. QED
      BY <1>1, <1>2, <3>2 DEF MapInv, Shaped, MapIsFile, FullOpens, ReadsOpen, Mounted
  <2>. QED
    BY <2>2, <2>3
<1>3. CASE ~Mounted
  <2>1. mount'.phase = "closed"
    BY <1>3 DEF FileChanges, Closed
  <2>. QED
    BY <1>1, <1>3, <2>1 DEF MapInv, Shaped, MapIsFile, FullOpens, ReadsOpen, Mounted
<1>. QED
  BY <1>2, <1>3

\* What build_full makes parses, or the commit fails.
LEMMA FullParses ==
  ASSUME NEW order, Built("full", order).ok
  PROVE  Parse(Built("full", order).cells).ok
<1>1. Refused.ok = FALSE
  BY DEF Refused
<1>. QED
  BY <1>1 DEF Built, Verified

\* A commit ends the mount.
LEMMA CommitMapInv ==
  ASSUME NEW how, NEW mode, NEW order, MapInv, Commit(how, mode, order)
  PROVE  MapInv'
<1>. DEFINE built == Built(mode, order)
<1>1. /\ disk' = IF ~built.ok THEN disk
                 ELSE [ino |-> IF mode = "full" THEN disk.ino + 1 ELSE disk.ino,
                       mtime |-> disk.mtime + 1, zip |-> built.cells]
      /\ mount' = IF built.ok /\ Untouched
                  THEN [phase |-> "committed", how |-> how, mode |-> mode, before |-> mount.archive]
                  ELSE Closed
      /\ call' = Idle
  BY DEF Commit, Install, End
<1>2. mode = "full" /\ built.ok => Parse(built.cells).ok
  BY FullParses
<1>. HIDE DEF built
<1>3. call'.step = "idle" /\ mount'.phase # "open"
  BY <1>1 DEF Idle, Closed
<1>4. DiskRecord(disk')
  BY <1>1 DEF MapInv, Shaped, DiskRecord
<1>5. ASSUME mount'.phase = "committed", mount'.mode = "full" PROVE Parse(disk'.zip).ok
  BY <1>1, <1>2, <1>5 DEF Closed
<1>. QED
  BY <1>3, <1>4, <1>5 DEF MapInv, Shaped, MapIsFile, FullOpens, ReadsOpen, Mounted

\* The entry operations leave the file and the mount.
LEMMA EditMapInv == MapInv /\ Edit => MapInv'
<1>. SUFFICES ASSUME MapInv, Edit PROVE MapInv'
  OBVIOUS
<1>1. UNCHANGED <<disk, mount>> /\ call'.step = "idle"
  BY DEF Edit, store, Idle
<1>. QED
  BY <1>1, SameMapInv DEF ReadsOpen

\* Every step keeps the invariant.
LEMMA NextMapInv == MapInv /\ [Next]_vars => MapInv'
<1>. SUFFICES ASSUME MapInv, [Next]_vars PROVE MapInv'
  OBVIOUS
<1>1. CASE UNCHANGED vars \/ OpenRefused
  <2>1. UNCHANGED <<disk, mount>> /\ call' = call
    BY <1>1 DEF vars, store, OpenRefused
  <2>. QED
    BY <2>1, SameMapInv DEF MapInv, ReadsOpen, Mounted
<1>2. CASE Open \/ Close
  BY <1>2, OpenMapInv, CloseMapInv
<1>3. CASE Hit \/ Miss \/ Fill \/ \E n \in Names, r \in Ranges : BeginRead(n, r[1], r[2])
  BY <1>3, ReadMapInv
<1>4. CASE CommitChanges \/ Compact
  <2>1. \E how, mode, o : Commit(how, mode, o)
    BY <1>4 DEF CommitChanges, Compact
  <2>. QED
    BY <2>1, CommitMapInv
<1>5. CASE WrittenInPlace \/ Replaced
  <2>1. \E z : \E i \in {disk.ino, disk.ino + 1} :
          FileChanges([ino |-> i, mtime |-> disk.mtime + 1, zip |-> z])
    BY <1>5 DEF WrittenInPlace, Replaced
  <2>2. \A i, t, z : DiskRecord([ino |-> i, mtime |-> t, zip |-> z])
    BY DEF DiskRecord
  <2>. QED
    BY <2>1, <2>2, FileMapInv
<1>6. CASE \/ \E n \in Names : EntryCreate(n) \/ EntryRemove(n)
           \/ \E n \in Names, i \in Writes : WriteInto(n, i)
           \/ \E old, new \in Names : EntryRename(old, new)
  <2>1. Edit
    BY <1>6 DEF EntryCreate, EntryRemove, WriteInto, EntryRename
  <2>. QED
    BY <2>1, EditMapInv
<1>. QED
  BY <1>1, <1>2, <1>3, <1>4, <1>5, <1>6 DEF Next

\* In every reachable state the map of an open mount is the file while the file
\* has its inode, and a FULL commit has left an archive that opens (mmap in open,
\* the parse of the new archive in full_commit_inner).
THEOREM MapInvariant == Spec => []MapInv
<1>1. Init => MapInv
  BY InitMapInv
<1>2. MapInv /\ [Next]_vars => MapInv'
  BY NextMapInv
<1>. QED
  BY <1>1, <1>2, PTL DEF Spec

\* Whatever the limits of the fields of a ZIP are, no FULL commit runs into them
\* unnoticed: what it leaves can be opened.
THEOREM FullCommitsOpen == Spec => []FullOpens
<1>1. MapInv => FullOpens
  BY DEF MapInv
<1>. QED
  BY <1>1, MapInvariant, PTL

-----------------------------------------------------------------------------
(* The overlay and the diff layer. *)

DiffRecord(d) ==
  d = [dirty |-> d.dirty, size |-> d.size, pages |-> d.pages] /\ d.dirty \in BOOLEAN

OwnInv ==
  /\ DOMAIN overlay = Names /\ DOMAIN diff = Names
  /\ \A n \in Names : DiffRecord(diff[n])
  /\ \A n \in Names : overlay[n].kind \in {"none", "tombstone", "created", "aliased"}
  /\ ~Mounted => overlay = NothingOverlaid /\ diff = NothingDirty
  /\ DiffOwned

\* The operations of an empty overlay.
LEMMA NothingOwned ==
  ASSUME overlay' = NothingOverlaid, diff' = NothingDirty
  PROVE  OwnInv'
<1>1. /\ DOMAIN overlay' = Names /\ DOMAIN diff' = Names
      /\ \A n \in Names : overlay'[n] = Clean /\ diff'[n] = NoDiff
  BY DEF NothingOverlaid, NothingDirty
<1>2. DiffRecord(NoDiff) /\ ~NoDiff.dirty
  BY DEF DiffRecord, NoDiff
<1>3. \A n \in Names : overlay'[n].kind = "none"
  BY <1>1 DEF Clean
<1>. QED
  BY <1>1, <1>2, <1>3 DEF OwnInv, DiffOwned

\* What is overlaid is judged by the index alone, which a mount never changes.
LEMMA SameOwned ==
  ASSUME OwnInv, UNCHANGED <<overlay, diff>>, Mounted' = Mounted,
         Mounted => mount'.image = mount.image
  PROVE  OwnInv'
BY DEF OwnInv, DiffOwned, Exists, Tells, Kind

\* An entry that is dirty and has no page.
LEMMA FreshDiff ==
  ASSUME NEW e, e = [NoDiff EXCEPT !.dirty = TRUE]
  PROVE  DiffRecord(e) /\ e.dirty
BY DEF DiffRecord, NoDiff

\* An entry that is created is one, and dirty.
LEMMA CreateOwned ==
  ASSUME OwnInv, NEW n \in Names, EntryCreate(n)
  PROVE  OwnInv'
<1>1. Mounted /\ mount' = mount
  BY DEF EntryCreate, Edit
<1>. DEFINE o == [kind |-> "created", source |-> NoSource]
<1>0. PICK e : e = [NoDiff EXCEPT !.dirty = TRUE]
  OBVIOUS
<1>2. overlay' = [overlay EXCEPT ![n] = o] /\ diff' = [diff EXCEPT ![n] = e]
  BY <1>0, Zenon DEF EntryCreate
<1>3. o.kind = "created" /\ DiffRecord(e) /\ e.dirty
  BY <1>0, FreshDiff
<1>. HIDE DEF o
<1>4. \A m \in Names :
        /\ overlay'[m] = IF m = n THEN o ELSE overlay[m]
        /\ diff'[m] = IF m = n THEN e ELSE diff[m]
  BY <1>2 DEF OwnInv
<1>5. /\ DOMAIN overlay' = Names /\ DOMAIN diff' = Names
      /\ \A m \in Names : DiffRecord(diff'[m])
      /\ \A m \in Names : overlay'[m].kind \in {"none", "tombstone", "created", "aliased"}
  BY <1>2, <1>3, <1>4 DEF OwnInv
<1>6. DiffOwned'
  BY <1>1, <1>3, <1>4 DEF OwnInv, DiffOwned, Exists, Tells, Kind, Mounted
<1>. QED
  BY <1>1, <1>5, <1>6 DEF OwnInv, Mounted

\* A name that is removed keeps nothing.
LEMMA RemoveOwned ==
  ASSUME OwnInv, NEW n \in Names, EntryRemove(n)
  PROVE  OwnInv'
<1>1. Mounted /\ mount' = mount
  BY DEF EntryRemove, Edit
<1>. DEFINE o == [kind |-> "tombstone", source |-> NoSource]
<1>2. overlay' = [overlay EXCEPT ![n] = o] /\ diff' = [diff EXCEPT ![n] = NoDiff]
  BY DEF EntryRemove
<1>3. o.kind = "tombstone" /\ DiffRecord(NoDiff) /\ ~NoDiff.dirty
  BY DEF DiffRecord, NoDiff
<1>. HIDE DEF o
<1>4. \A m \in Names :
        /\ overlay'[m] = IF m = n THEN o ELSE overlay[m]
        /\ diff'[m] = IF m = n THEN NoDiff ELSE diff[m]
  BY <1>2 DEF OwnInv
<1>5. /\ DOMAIN overlay' = Names /\ DOMAIN diff' = Names
      /\ \A m \in Names : DiffRecord(diff'[m])
      /\ \A m \in Names : overlay'[m].kind \in {"none", "tombstone", "created", "aliased"}
  BY <1>2, <1>3, <1>4 DEF OwnInv
<1>6. DiffOwned'
  BY <1>1, <1>3, <1>4 DEF OwnInv, DiffOwned, Exists, Tells, Kind, Mounted
<1>. QED
  BY <1>1, <1>5, <1>6 DEF OwnInv, Mounted

\* What keeps an entry: its kind and the index.
LEMMA SameExists ==
  ASSUME NEW m, Exists(m), overlay'[m] = overlay[m], mount' = mount
  PROVE  Exists(m)'
BY DEF Exists, Kind

\* A created or aliased name is there.
LEMMA PresentKinds ==
  ASSUME NEW m, overlay'[m].kind \in {"created", "aliased"}
  PROVE  Exists(m)'
BY DEF Exists, Kind

\* A rename moves what the old name has to one that has nothing.
LEMMA RenameOwned ==
  ASSUME OwnInv, NEW old \in Names, NEW new \in Names, EntryRename(old, new)
  PROVE  OwnInv'
<1>1. /\ Mounted /\ mount' = mount
      /\ Tells(old) /\ Exists(old) /\ ~Exists(new) /\ old # new
  BY DEF EntryRename, Edit
<1>. DEFINE a == [kind |-> "aliased", source |-> old]
            t == [kind |-> "tombstone", source |-> NoSource]
            o == IF overlay[old].kind = "none" THEN a ELSE overlay[old]
<1>2. overlay' = [overlay EXCEPT ![new] = o, ![old] = t]
  BY DEF EntryRename
<1>3. /\ diff[old].dirty => diff' = [diff EXCEPT ![new] = diff[old], ![old] = NoDiff]
      /\ ~diff[old].dirty => diff' = diff
  BY DEF EntryRename
<1>4. /\ a.kind = "aliased" /\ a.source = old /\ t.kind = "tombstone"
      /\ DiffRecord(NoDiff) /\ ~NoDiff.dirty
  BY DEF DiffRecord, NoDiff
<1>5. o.kind \in {"created", "aliased"}
  BY <1>1, <1>4 DEF Exists, Kind, OwnInv
<1>6. o.kind = "created" => diff[old].dirty
  BY <1>1, <1>4 DEF OwnInv, DiffOwned
<1>7. o.kind = "aliased" =>
        o.source \in Names /\ Tells(o.source) /\ Lookup(mount.image, o.source) # NotThere
  <2>1. CASE overlay[old].kind = "none"
    BY <1>1, <1>4, <2>1 DEF Exists, Kind
  <2>2. CASE overlay[old].kind # "none"
    BY <1>1, <2>2 DEF OwnInv, DiffOwned
  <2>. QED
    BY <2>1, <2>2
<1>8. ~diff[new].dirty
  BY <1>1 DEF OwnInv, DiffOwned
<1>9. o.kind = "aliased" => o.source = old \/ overlay[o.source].kind # "none"
  BY <1>1, <1>4 DEF OwnInv, DiffOwned
<1>. HIDE DEF a, t, o
<1>10. \A m \in Names :
         overlay'[m] = IF m = old THEN t ELSE IF m = new THEN o ELSE overlay[m]
  BY <1>1, <1>2 DEF OwnInv
<1>11. \A m \in Names :
         /\ DiffRecord(diff'[m])
         /\ diff'[m].dirty = IF m = old THEN FALSE
                             ELSE IF m = new THEN diff[old].dirty ELSE diff[m].dirty
  <2>1. CASE diff[old].dirty
    <3>1. \A m \in Names :
            diff'[m] = IF m = old THEN NoDiff ELSE IF m = new THEN diff[old] ELSE diff[m]
      BY <1>1, <1>3, <2>1 DEF OwnInv
    <3>2. NoDiff.dirty = FALSE
      BY DEF NoDiff
    <3>. QED
      BY <1>4, <3>1, <3>2 DEF OwnInv
  <2>2. CASE ~diff[old].dirty
    <3>1. diff[old].dirty = FALSE /\ diff[new].dirty = FALSE
      BY <1>8, <2>2 DEF OwnInv, DiffRecord
    <3>. QED
      BY <1>3, <2>2, <3>1 DEF OwnInv
  <2>. QED
    BY <2>1, <2>2
<1>12. /\ DOMAIN overlay' = Names /\ DOMAIN diff' = Names
       /\ \A m \in Names : overlay'[m].kind \in {"none", "tombstone", "created", "aliased"}
  BY <1>2, <1>3, <1>4, <1>5, <1>10 DEF OwnInv
<1>13. DiffOwned'
  <2>. SUFFICES ASSUME NEW m \in Names PROVE
         /\ diff'[m].dirty => Exists(m)'
         /\ overlay'[m].kind = "created" => diff'[m].dirty
         /\ overlay'[m].kind = "aliased" =>
              /\ overlay'[m].source \in Names /\ Tells(overlay[m].source)'
              /\ Lookup(mount'.image, overlay'[m].source) # NotThere
              /\ overlay'[overlay'[m].source].kind # "none"
    BY DEF DiffOwned
  <2>1. ASSUME diff'[m].dirty PROVE Exists(m)'
    <3>1. CASE m = new
      BY <1>1, <1>5, <1>10, <3>1, PresentKinds
    <3>2. CASE m # new
      <4>1. m # old /\ diff[m].dirty /\ overlay'[m] = overlay[m]
        BY <1>10, <1>11, <2>1, <3>2
      <4>2. Exists(m)
        BY <1>1, <4>1 DEF OwnInv, DiffOwned
      <4>. QED
        BY <1>1, <4>1, <4>2, SameExists
    <3>. QED
      BY <3>1, <3>2
  <2>2. overlay'[m].kind = "created" => diff'[m].dirty
    BY <1>1, <1>4, <1>6, <1>10, <1>11 DEF OwnInv, DiffOwned
  <2>3. ASSUME overlay'[m].kind = "aliased"
        PROVE  /\ overlay'[m].source \in Names /\ Tells(overlay[m].source)'
               /\ Lookup(mount'.image, overlay'[m].source) # NotThere
    BY <1>1, <1>4, <1>7, <1>10, <2>3 DEF OwnInv, DiffOwned, Tells
  <2>4. ASSUME overlay'[m].kind = "aliased" PROVE overlay'[overlay'[m].source].kind # "none"
    <3>1. overlay'[m].source = old \/ overlay[overlay'[m].source].kind # "none"
      BY <1>1, <1>4, <1>9, <1>10, <2>4 DEF OwnInv, DiffOwned
    <3>. QED
      BY <1>4, <1>5, <1>10, <2>3, <2>4, <3>1
  <2>. QED
    BY <2>1, <2>2, <2>3, <2>4
<1>. QED
  BY <1>1, <1>11, <1>12, <1>13 DEF OwnInv, Mounted

\* What can be written is there.
LEMMA ResolvedExists ==
  ASSUME NEW n, Resolve(n).err = "none"
  PROVE  Exists(n)
<1>. DEFINE found == Lookup(mount.image, SourceOf(n))
<1>1. \A err : Failed(err).err = err
  BY DEF Failed, Resolved
<1>2. ResolvedAt(n, SourceOf(n), found).err = "none"
  BY DEF Resolve
<1>. HIDE DEF found
<1>3. Kind(n, found) # "absent"
  BY <1>1, <1>2 DEF ResolvedAt
<1>. USE DEF found
<1>. QED
  BY <1>3 DEF Exists, Kind, SourceOf

\* A write makes an entry dirty that is there.
LEMMA WriteOwned ==
  ASSUME OwnInv, NEW n \in Names, NEW i, WriteInto(n, i)
  PROVE  OwnInv'
<1>1. Mounted /\ mount' = mount /\ overlay' = overlay /\ Exists(n)
  BY ResolvedExists DEF WriteInto, WriteResolved, Edit
<1>. DEFINE r == Resolve(n)
            e == EnsuredEntry(n, r.size)
            page == PagePart(n, r.source, r.size, PageStart(i \div PageSize),
                             PageStart((i \div PageSize) + 1))
<1>0. WriteByte(n, i, e, page)
  BY Zenon DEF WriteInto, WriteResolved
<1>2. DiffRecord(e) /\ e.dirty
  BY DEF EnsuredEntry, OwnInv, DiffRecord
<1>. HIDE DEF r, e, page
<1>3. \/ diff' = [diff EXCEPT ![n] = e]
      \/ \E s, p : diff' = [diff EXCEPT ![n] = [dirty |-> TRUE, size |-> s, pages |-> p]]
  BY <1>0 DEF WriteByte, WrittenEntry
<1>4. \A s, p : LET f == [dirty |-> TRUE, size |-> s, pages |-> p] IN DiffRecord(f) /\ f.dirty
  BY DEF DiffRecord
<1>5. \E f : DiffRecord(f) /\ f.dirty /\ diff' = [diff EXCEPT ![n] = f]
  BY <1>2, <1>3, <1>4
<1>6. /\ DOMAIN diff' = Names
      /\ \A m \in Names : /\ DiffRecord(diff'[m])
                          /\ diff'[m].dirty <=> (m = n \/ diff[m].dirty)
  BY <1>5 DEF OwnInv
<1>7. DiffOwned'
  BY <1>1, <1>6 DEF OwnInv, DiffOwned, Exists, Tells, Kind, Mounted
<1>. QED
  BY <1>1, <1>6, <1>7 DEF OwnInv, Mounted

\* Every step keeps the diff layer to the entries that are there.
LEMMA NextOwnInv == MapInv /\ OwnInv /\ [Next]_vars => OwnInv'
<1>. SUFFICES ASSUME MapInv, OwnInv, [Next]_vars PROVE OwnInv'
  OBVIOUS
<1>1. CASE UNCHANGED vars \/ OpenRefused
  <2>1. UNCHANGED <<overlay, diff, mount>>
    BY <1>1 DEF vars, OpenRefused
  <2>. QED
    BY <2>1, SameOwned DEF Mounted
<1>2. CASE Open
  <2>1. overlay' = NothingOverlaid /\ diff' = NothingDirty
    BY <1>2 DEF Open, OwnInv
  <2>. QED
    BY <2>1, NothingOwned
<1>3. CASE Close \/ CommitChanges \/ Compact
  <2>1. overlay' = NothingOverlaid /\ diff' = NothingDirty
    BY <1>3 DEF Close, CommitChanges, Compact, Commit, End
  <2>. QED
    BY <2>1, NothingOwned
<1>4. CASE Hit \/ Fill \/ \E n \in Names, r \in Ranges : BeginRead(n, r[1], r[2])
  <2>1. UNCHANGED <<overlay, diff, mount>>
    BY <1>4 DEF Hit, Fill, BeginRead
  <2>. QED
    BY <2>1, SameOwned DEF Mounted
<1>5. CASE Miss
  <2>1. /\ Mounted /\ UNCHANGED <<overlay, diff>>
        /\ \E t, b : mount' = [mount EXCEPT !.tick = t, !.stale = b]
    BY <1>5 DEF Miss, MapInv, ReadsOpen
  <2>2. MountRecord(mount)
    BY <2>1 DEF MapInv, Shaped
  <2>3. mount'.phase = mount.phase /\ mount'.image = mount.image
    BY <2>1, <2>2 DEF MountRecord
  <2>. QED
    BY <2>1, <2>3, SameOwned DEF Mounted
<1>6. CASE WrittenInPlace \/ Replaced
  <2>1. \E d : FileChanges(d)
    BY <1>6 DEF WrittenInPlace, Replaced
  <2>2. PICK d : FileChanges(d)
    BY <2>1
  <2>3. UNCHANGED <<overlay, diff>>
    BY <2>2 DEF FileChanges
  <2>4. CASE Mounted
    <3>1. MountRecord(mount)
      BY <2>4 DEF MapInv, Shaped
    <3>2. mount' = mount \/ \E z, b : mount' = [mount EXCEPT !.archive = z, !.raced = b]
      BY <2>2, <2>4 DEF FileChanges
    <3>3. mount'.phase = mount.phase /\ mount'.image = mount.image
      BY <3>1, <3>2 DEF MountRecord
    <3>. QED
      BY <2>3, <3>3, SameOwned DEF Mounted
  <2>5. CASE ~Mounted
    <3>1. mount'.phase = "closed"
      BY <2>2, <2>5 DEF FileChanges, Closed
    <3>. QED
      BY <2>3, <2>5, <3>1, SameOwned DEF Mounted
  <2>. QED
    BY <2>4, <2>5
<1>7. CASE \E n \in Names : EntryCreate(n) \/ EntryRemove(n)
  BY <1>7, CreateOwned, RemoveOwned
<1>8. CASE \E n \in Names, i \in Writes : WriteInto(n, i)
  BY <1>8, WriteOwned
<1>9. CASE \E old, new \in Names : EntryRename(old, new)
  BY <1>9, RenameOwned
<1>. QED
  BY <1>1, <1>2, <1>3, <1>4, <1>5, <1>6, <1>7, <1>8, <1>9 DEF Next

\* Nothing is overlaid at the start.
LEMMA InitOwned == Init => OwnInv
<1>. SUFFICES ASSUME Init PROVE OwnInv
  OBVIOUS
<1>1. /\ DOMAIN overlay = Names /\ DOMAIN diff = Names
      /\ \A n \in Names : overlay[n] = Clean /\ diff[n] = NoDiff
      /\ overlay = NothingOverlaid /\ diff = NothingDirty
  BY DEF Init, NothingOverlaid, NothingDirty
<1>2. DiffRecord(NoDiff) /\ Clean.kind = "none" /\ ~Mounted
  BY DEF Init, DiffRecord, NoDiff, Clean, Mounted, Closed
<1>. QED
  BY <1>1, <1>2 DEF OwnInv, DiffOwned

\* In every reachable state what is written belongs to an entry that is there, a
\* created entry is dirty, and an alias is of a name that the index has and that no
\* longer shows it (remove, rename and create of mount.rs over EntryTable and
\* DiffLayer).
THEOREM DiffAlwaysOwned == Spec => []DiffOwned
<1>1. Init => OwnInv
  BY InitOwned
<1>2. MapInv /\ OwnInv /\ [Next]_vars => OwnInv'
  BY NextOwnInv
<1>3. OwnInv => DiffOwned
  BY DEF OwnInv
<1>. QED
  BY <1>1, <1>2, <1>3, MapInvariant, PTL DEF Spec

-----------------------------------------------------------------------------
(* The cache of the mount. *)

\* The cache mirrors the list that the reference keeps of the same calls.
CacheInv == \E at : Mirrors(cache, lru, at)

\* A read that goes on knows its range and has a sequence of bytes.
ReadRecorded ==
  call = [step |-> call.step, n |-> call.n, off |-> call.off, len |-> call.len,
          at |-> call.at, out |-> call.out]
ReadInv ==
  call.step \in {"look", "fill"} =>
    ReadRecorded /\ call.off \in Nat /\ call.len \in Nat /\ IsSeq(call.out)

LruInv == CacheInv /\ ReadInv

\* A part of a sequence is one.
LEMMA SliceIs ==
  ASSUME NEW b, IsSeq(b), NEW off \in Int, NEW len \in Int
  PROVE  IsSeq(Slice(b, off, len))
<1>. DEFINE R == {b[i] : i \in 1..Len(b)}
<1>1. b \in Seq(R) /\ Len(b) \in Nat
  BY DEF IsSeq
<1>. HIDE DEF R
<1>2. PICK m \in Int : m = off + 1
  OBVIOUS
<1>3. PICK n \in Int : n = Lesser(off + len, Len(b))
  BY <1>1 DEF Lesser
<1>4. SubSeq(b, m, n) = [i \in 1..(n - m + 1) |-> b[i + m - 1]]
  BY <1>1
<1>5. \E k \in Nat : 1..(n - m + 1) = 1..k
  <2>1. PICK d \in Int : d = n - m + 1
    OBVIOUS
  <2>2. CASE d < 0
    <3>1. 1..d = {} /\ 1..0 = {}
      BY <2>2
    <3>. QED
      BY <2>1, <3>1
  <2>3. CASE d >= 0
    <3>1. d \in Nat
      BY <2>3
    <3>. QED
      BY <2>1, <3>1
  <2>. QED
    BY <2>2, <2>3
<1>6. PICK k \in Nat : 1..(n - m + 1) = 1..k
  BY <1>5
<1>7. PICK s : s = [i \in 1..k |-> b[i + m - 1]]
  OBVIOUS
<1>8. IsSeq(s)
  BY <1>7 DEF IsSeq
<1>9. Slice(b, off, len) = s
  BY <1>2, <1>3, <1>4, <1>6, <1>7 DEF Slice
<1>. QED
  BY <1>8, <1>9

\* The page of a read that goes on.
LEMMA PagesNat ==
  ASSUME ReadInv, call.step \in {"look", "fill"}
  PROVE  /\ PageSize \in Nat \ {0} /\ Pos \in Nat /\ Page \in Nat
         /\ \A p \in Int : PageStart(p) \in Int
<1>1. PageSize \in Nat \ {0}
  BY CacheAssumption
<1>2. call.off \in Nat /\ Len(call.out) \in Nat
  BY DEF ReadInv, IsSeq
<1>3. PICK p \in Nat : p = Pos
  BY <1>2 DEF Pos
<1>4. p \div PageSize \in Nat
  BY <1>1
<1>5. \A q \in Int : PageStart(q) \in Int
  BY <1>1 DEF PageStart
<1>. QED
  BY <1>1, <1>3, <1>4, <1>5 DEF Page

\* What the read goes on with.
LEMMA TakenReads ==
  ASSUME ReadInv, call.step \in {"look", "fill"}, NEW data, IsSeq(data), call' = Taken(data)
  PROVE  ReadInv'
<1>1. PICK b : b = Slice(data, Pos - PageStart(Page), call.off + call.len - Pos)
  OBVIOUS
<1>2. IsSeq(b)
  <2>1. Pos - PageStart(Page) \in Int /\ call.off + call.len - Pos \in Int
    BY PagesNat DEF ReadInv
  <2>. QED
    BY <1>1, <2>1, SliceIs
<1>3. PICK o : o = call.out \o b
  OBVIOUS
<1>4. IsSeq(o)
  BY <1>2, <1>3, JoinIs DEF ReadInv, JoinOf
<1>5. call' = IF Len(o) = call.len THEN Done(call.n, call.off, call.len, Ok(o))
              ELSE [call EXCEPT !.step = "look", !.out = o]
  BY <1>1, <1>3 DEF Taken, TakenTo
<1>6. CASE Len(o) = call.len
  <2>1. call'.step = "done"
    BY <1>5, <1>6 DEF Done
  <2>. QED
    BY <2>1 DEF ReadInv
<1>7. CASE Len(o) # call.len
  <2>1. call' = [step |-> "look", n |-> call.n, off |-> call.off, len |-> call.len,
                 at |-> call.at, out |-> o]
    BY <1>5, <1>7 DEF ReadInv, ReadRecorded
  <2>. QED
    BY <1>4, <2>1 DEF ReadInv, ReadRecorded
<1>. QED
  BY <1>6, <1>7

\* A hit uses the page in both.
LEMMA HitLru ==
  ASSUME LruInv, Hit
  PROVE  LruInv'
<1>1. PICK key : key = Key(Page)
  OBVIOUS
<1>2. /\ call.step = "look" /\ Resident(cache, key)
      /\ call' = Taken(cache.nodes[cache.map[key]].data)
      /\ cache' = Get(cache, key) /\ lru' = Used(lru, key)
  BY <1>1 DEF Hit
<1>3. PICK at : Mirrors(cache, lru, at)
  BY DEF LruInv, CacheInv
<1>4. CacheInv'
  <2>1. \E a : Mirrors(Get(cache, key), Used(lru, key), a)
    BY <1>2, <1>3, GetMirrors
  <2>. QED
    BY <1>2, <2>1 DEF CacheInv
<1>5. PICK data : data = cache.nodes[cache.map[key]].data
  OBVIOUS
<1>6. IsSeq(data)
  <2>1. PICK k \in 1..Len(lru) : lru[k].key = key
    BY <1>2, <1>3 DEF Mirrors, Contents, KeysOf, Resident
  <2>2. cache.map[key] = at[k] /\ cache.nodes[at[k]].data = lru[k].data
    BY <1>3, <2>1 DEF Mirrors, Contents
  <2>3. IsSeq(lru[k].data)
    BY <1>3, <2>1 DEF Mirrors, Contents, PageList, Sized
  <2>. QED
    BY <1>5, <2>2, <2>3
<1>7. ReadInv'
  BY <1>2, <1>5, <1>6, TakenReads DEF LruInv
<1>. QED
  BY <1>4, <1>7 DEF LruInv

\* A run starts with the missing page.
LEMMA LastIs ==
  ASSUME NEW limit \in Int, Page \in Nat
  PROVE  LastUpTo(limit) \in Int /\ LastUpTo(limit) >= Page
<1>1. PICK f \in Nat : f = Page
  OBVIOUS
<1>2. PICK g \in Nat : g = Greater(f, limit) /\ g >= f /\ g >= limit
  BY DEF Greater
<1>. DEFINE T == {p \in f..g : p >= limit \/ Resident(cache, Key(p + 1))}
<1>3. PICK x \in T : \A y \in T : x <= y
  <2>1. g \in T /\ T \subseteq Nat
    BY <1>2
  <2>. HIDE DEF T
  <2>. QED
    BY <2>1, LeastNatural
<1>4. \A q \in f..(x - 1) : q < limit /\ ~Resident(cache, Key(q + 1))
  <2>. SUFFICES ASSUME NEW q \in f..(x - 1)
                PROVE  q < limit /\ ~Resident(cache, Key(q + 1))
    OBVIOUS
  <2>1. q \in f..g /\ ~(x <= q)
    BY <1>2, <1>3
  <2>2. q \notin T
    BY <1>3, <2>1
  <2>. QED
    BY <2>1, <2>2
<1>5. \E p \in Page..Greater(Page, limit) :
        /\ p >= limit \/ Resident(cache, Key(p + 1))
        /\ \A q \in Page..(p - 1) : q < limit /\ ~Resident(cache, Key(q + 1))
  <2>1. x \in f..g /\ (x >= limit \/ Resident(cache, Key(x + 1)))
    BY <1>3
  <2>. HIDE DEF T
  <2>. QED
    BY <1>1, <1>2, <1>4, <2>1
<1>6. LastUpTo(limit) \in Page..Greater(Page, limit)
  BY <1>5, Zenon DEF LastUpTo
<1>. QED
  BY <1>1, <1>2, <1>6

\* The pages of a run have bytes.
LEMMA RunSized ==
  ASSUME Page \in Nat, Rec.uncomp \in Int, NEW bytes, NEW last \in Int, last >= Page
  PROVE  Sized(RunPages(bytes, last)) /\ Len(RunPages(bytes, last)) > 0
<1>1. PICK f \in Nat : f = Page
  OBVIOUS
<1>2. PICK n \in Nat : n = last - f + 1 /\ n > 0
  BY <1>1
<1>3. PICK s : s = RunPages(bytes, last)
  OBVIOUS
<1>4. s = [k \in 1..n |->
             [key |-> Key(f + k - 1),
              data |-> [i \in 1..PageLen(Rec.uncomp, f + k - 1) |->
                          bytes[(PageStart(f + k - 1) - PageStart(f)) + i]]]]
  BY <1>1, <1>2, <1>3, Zenon DEF RunPages
<1>5. ASSUME NEW k \in 1..n PROVE IsSeq(s[k].data)
  <2>1. PICK p \in Int : p = f + k - 1
    OBVIOUS
  <2>2. PICK m \in Nat : m = PageLen(Rec.uncomp, p)
    <3>1. PICK u \in Int : u = Rec.uncomp
      OBVIOUS
    <3>2. PICK b \in Int : b = PageStart(p)
      BY CacheAssumption DEF PageStart
    <3>. QED
      BY <3>1, <3>2, CacheAssumption DEF PageLen
  <2>3. PICK b : b = PageStart(p) - PageStart(f)
    OBVIOUS
  <2>4. s[k].data = [i \in 1..m |-> bytes[b + i]]
    BY <1>4, <2>1, <2>2, <2>3
  <2>5. PICK d : d = [i \in 1..m |-> bytes[b + i]]
    OBVIOUS
  <2>6. IsSeq(d)
    BY <2>5 DEF IsSeq
  <2>. QED
    BY <2>4, <2>5, <2>6
<1>6. IsSeq(s) /\ Len(s) = n
  BY <1>4 DEF IsSeq
<1>. QED
  BY <1>2, <1>3, <1>5, <1>6 DEF Sized

\* A fill puts the same pages into both.
LEMMA FillLru ==
  ASSUME LruInv, RecordSized, Fill
  PROVE  LruInv'
<1>1. PICK last : last = LastOfRun
  OBVIOUS
<1>2. PICK run : run = Run(last)
  OBVIOUS
<1>3. call.step = "fill" /\ FillWith(run, last)
  BY <1>1, <1>2 DEF Fill
<1>4. CASE run.err # "none"
  <2>1. UNCHANGED <<cache, lru>> /\ call'.step = "done"
    BY <1>3, <1>4 DEF FillWith, Done
  <2>. QED
    BY <2>1 DEF LruInv, CacheInv, ReadInv
<1>5. CASE run.err = "none"
  <2>1. PICK pages : pages = RunPages(run.bytes, last)
    OBVIOUS
  <2>2. /\ call' = Taken(pages[1].data)
        /\ cache' = InsertRun(cache, pages) /\ lru' = AddedRun(lru, pages)
    BY <1>3, <1>5, <2>1 DEF FillWith, Filled
  <2>3. Page \in Nat /\ Rec.uncomp \in Nat
    BY <1>3, PagesNat DEF LruInv, RecordSized, Rec
  <2>4. last \in Int /\ last >= Page
    <3>1. PICK u \in Nat : u = Rec.uncomp
      BY <2>3
    <3>2. PageCount(u) \in Int
      BY <3>1, CacheAssumption DEF PageCount
    <3>3. ReadAhead \in Nat
      BY MountAssumption
    <3>4. PICK limit \in Int : limit = Lesser(Page + ReadAhead, PageCount(u) - 1)
      BY <2>3, <3>2, <3>3 DEF Lesser
    <3>5. last = LastUpTo(limit)
      BY <1>1, <3>1, <3>4 DEF LastOfRun
    <3>. QED
      BY <2>3, <3>5, LastIs
  <2>5. Sized(pages) /\ Len(pages) > 0
    BY <2>1, <2>3, <2>4, RunSized
  <2>6. CacheInv'
    <3>1. PICK at : Mirrors(cache, lru, at)
      BY DEF LruInv, CacheInv
    <3>2. \E a : Mirrors(InsertRun(cache, pages), AddedRun(lru, pages), a)
      BY <2>5, <3>1, InsertRunMirrors
    <3>. QED
      BY <2>2, <3>2 DEF CacheInv
  <2>7. PICK data : data = pages[1].data
    OBVIOUS
  <2>8. IsSeq(data)
    <3>1. 1 \in 1..Len(pages)
      BY <2>5 DEF Sized, IsSeq
    <3>. QED
      BY <2>5, <2>7, <3>1 DEF Sized
  <2>9. ReadInv'
    BY <1>3, <2>2, <2>7, <2>8, TakenReads DEF LruInv
  <2>. QED
    BY <2>6, <2>9 DEF LruInv
<1>. QED
  BY <1>4, <1>5

\* A read starts with nothing.
LEMMA BeginLru ==
  ASSUME LruInv, NEW n, NEW off \in Nat, NEW len \in Nat, BeginRead(n, off, len)
  PROVE  LruInv'
<1>1. UNCHANGED <<cache, lru>>
  BY DEF BeginRead
<1>2. \A result : Done(n, off, len, result).step = "done"
  BY DEF Done
<1>3. \/ call'.step = "done"
      \/ \E at : call' = [step |-> "look", n |-> n, off |-> off, len |-> len, at |-> at,
                          out |-> <<>>]
  BY <1>2 DEF BeginRead, ReadAs, CachedRead
<1>4. ReadInv'
  <2>1. CASE call'.step = "done"
    BY <2>1 DEF ReadInv
  <2>2. CASE \E at : call' = [step |-> "look", n |-> n, off |-> off, len |-> len, at |-> at,
                              out |-> <<>>]
    <3>1. PICK e : e = <<>>
      OBVIOUS
    <3>2. IsSeq(e)
      BY <3>1 DEF IsSeq
    <3>3. PICK at : call' = [step |-> "look", n |-> n, off |-> off, len |-> len, at |-> at,
                             out |-> e]
      BY <2>2, <3>1
    <3>. QED
      BY <3>2, <3>3 DEF ReadInv, ReadRecorded
  <2>. QED
    BY <1>3, <2>1, <2>2
<1>. QED
  BY <1>1, <1>4 DEF LruInv, CacheInv

\* A miss leaves the cache, and the read goes on or ends.
LEMMA MissLru ==
  ASSUME LruInv, Miss
  PROVE  LruInv'
<1>1. UNCHANGED <<cache, lru>> /\ call.step = "look"
  BY DEF Miss
<1>2. \/ call' = Done(call.n, call.off, call.len, Err("stale"))
      \/ call' = [call EXCEPT !.step = "fill"]
  BY DEF Miss
<1>3. ReadInv'
  <2>1. CASE call' = Done(call.n, call.off, call.len, Err("stale"))
    BY <2>1 DEF ReadInv, Done
  <2>2. CASE call' = [call EXCEPT !.step = "fill"]
    <3>1. call' = [step |-> "fill", n |-> call.n, off |-> call.off, len |-> call.len,
                   at |-> call.at, out |-> call.out]
      BY <1>1, <2>2 DEF LruInv, ReadInv, ReadRecorded
    <3>. QED
      BY <1>1, <3>1 DEF LruInv, ReadInv, ReadRecorded
  <2>. QED
    BY <1>2, <2>1, <2>2
<1>. QED
  BY <1>1, <1>3 DEF LruInv, CacheInv

\* Every step keeps the cache a mirror of its list.
LEMMA NextLruInv == LruInv /\ RecordSized /\ [Next]_vars => LruInv'
<1>. SUFFICES ASSUME LruInv, RecordSized, [Next]_vars PROVE LruInv'
  OBVIOUS
<1>1. CASE UNCHANGED <<cache, lru>> /\ (call' = call \/ call'.step = "idle")
  BY <1>1 DEF LruInv, CacheInv, ReadInv, ReadRecorded
<1>2. CASE End
  <2>1. Mirrors(cache', lru', <<>>) /\ call'.step = "idle"
    BY <1>2, EmptyMirrors DEF End, Idle
  <2>. QED
    BY <2>1 DEF LruInv, CacheInv, ReadInv
<1>3. CASE Hit \/ Miss \/ Fill
  BY <1>3, HitLru, MissLru, FillLru
<1>4. CASE \E n \in Names, r \in Ranges : BeginRead(n, r[1], r[2])
  <2>1. \A r \in Ranges : r[1] \in Nat /\ r[2] \in Nat
    BY MountAssumption
  <2>. QED
    BY <1>4, <2>1, BeginLru
<1>5. CASE UNCHANGED vars \/ OpenRefused \/ Open
  BY <1>1, <1>5 DEF vars, OpenRefused, Open
<1>6. CASE Close \/ CommitChanges \/ Compact
  BY <1>2, <1>6 DEF Close, CommitChanges, Compact, Commit
<1>7. CASE WrittenInPlace \/ Replaced
  BY <1>1, <1>7 DEF WrittenInPlace, Replaced, FileChanges
<1>8. CASE \/ \E n \in Names : EntryCreate(n) \/ EntryRemove(n)
           \/ \E n \in Names, i \in Writes : WriteInto(n, i)
           \/ \E old, new \in Names : EntryRename(old, new)
  <2>1. Edit
    BY <1>8 DEF EntryCreate, EntryRemove, WriteInto, EntryRename
  <2>. QED
    BY <1>1, <2>1 DEF Edit, Idle
<1>. QED
  BY <1>3, <1>4, <1>5, <1>6, <1>7, <1>8 DEF Next


-----------------------------------------------------------------------------
(* Pages. *)

\* An offset is in one page.
LEMMA PagesOrdered ==
  ASSUME NEW a \in Nat, NEW b \in Nat, a < b
  PROVE  /\ PageStart(a) \in Nat /\ PageStart(b) \in Nat
         /\ PageStart(a) + PageSize <= PageStart(b)
<1>1. PICK d \in Nat : b = a + 1 + d
  <2>1. b - a - 1 \in Nat /\ b = a + 1 + (b - a - 1)
    OBVIOUS
  <2>. QED
    BY <2>1
<1>2. PageSize \in Nat /\ d * PageSize \in Nat /\ a * PageSize \in Nat
  BY CacheAssumption, SMT
<1>3. b * PageSize = a * PageSize + PageSize + d * PageSize
  BY <1>1, <1>2, SMT
<1>. QED
  BY <1>2, <1>3 DEF PageStart

\* The next page starts where a page ends.
LEMMA NextPage ==
  ASSUME NEW p \in Nat
  PROVE  /\ PageSize \in Nat \ {0} /\ PageStart(p) \in Nat
         /\ PageStart(p + 1) = PageStart(p) + PageSize
<1>1. PageSize \in Nat \ {0} /\ p * PageSize \in Nat
  BY CacheAssumption, SMT
<1>2. (p + 1) * PageSize = p * PageSize + PageSize
  BY <1>1, SMT
<1>. QED
  BY <1>1, <1>2 DEF PageStart

\* The page of an offset, and the place in it.
LEMMA PageHolds ==
  ASSUME NEW i \in Nat
  PROVE  /\ i \div PageSize \in Nat /\ i % PageSize \in 0..(PageSize - 1)
         /\ i = PageStart(i \div PageSize) + (i % PageSize)
BY CacheAssumption, SMT DEF PageStart

\* An offset within a page is in that one.
LEMMA PageIs ==
  ASSUME NEW p \in Nat, NEW i \in Nat, PageStart(p) <= i, i < PageStart(p + 1)
  PROVE  i \div PageSize = p /\ i % PageSize = i - PageStart(p)
<1>1. PICK q \in Nat : q = i \div PageSize
  BY PageHolds
<1>2. PICK r \in 0..(PageSize - 1) : r = i % PageSize
  BY PageHolds
<1>3. PICK P \in Nat \ {0} : P = PageSize
  BY CacheAssumption
<1>4. PICK u \in Nat : u = PageStart(p) /\ u + P = PageStart(p + 1)
  BY <1>3, NextPage
<1>5. PICK v \in Nat : v = PageStart(q) /\ i = v + r
  <2>1. PageStart(q) \in Nat
    BY NextPage
  <2>. QED
    BY <1>1, <1>2, <2>1, PageHolds
<1>6. p < q => u + P <= v
  BY <1>3, <1>4, <1>5, PagesOrdered
<1>7. q < p => v + P <= u
  BY <1>3, <1>4, <1>5, PagesOrdered
<1>8. p = q
  BY <1>2, <1>3, <1>4, <1>5, <1>6, <1>7
<1>9. r \in Int /\ r = i - u
  BY <1>2, <1>4, <1>5, <1>8
<1>10. i \div PageSize = p
  BY <1>1, <1>8
<1>11. i % PageSize = i - PageStart(p)
  <2>1. u = PageStart(p)
    BY <1>4
  <2>. QED
    BY <1>2, <1>9, <2>1, Zenon
<1>. QED
  BY <1>10, <1>11

\* The last page of so many bytes starts before their end.
LEMMA LastPage ==
  ASSUME NEW to \in Nat, NEW p \in Nat, p < PageCount(to)
  PROVE  PageStart(p) < to
<1>1. PICK P \in Nat \ {0} : P = PageSize
  BY CacheAssumption
<1>2. PICK a \in Nat : a = to + P - 1
  <2>1. to + P - 1 \in Nat
    BY <1>1
  <2>. QED
    BY <2>1
<1>3. PICK q \in Nat : q = a \div PageSize
  BY PageHolds
<1>4. PageStart(q) \in Nat /\ PageStart(q) <= a
  <2>1. PICK r \in 0..(PageSize - 1) : r = a % PageSize
    BY PageHolds
  <2>2. PageStart(q) \in Nat
    BY NextPage
  <2>3. a = PageStart(q) + r
    BY <1>3, <2>1, PageHolds
  <2>. QED
    BY <1>1, <2>1, <2>2, <2>3
<1>5. PageCount(to) = q
  BY <1>1, <1>2, <1>3 DEF PageCount
<1>6. PageStart(p) \in Nat /\ PageStart(p) + P <= PageStart(q)
  BY <1>1, <1>5, PagesOrdered
<1>. QED
  BY <1>1, <1>2, <1>4, <1>6

-----------------------------------------------------------------------------
(* The bytes of an entry. *)

\* What a mount was made of.
ImageIs(image) == image.exists /\ ImageOk(image)
MountTyped ==
  Mounted => Blocks(mount.archive) /\ Parse(mount.archive).ok /\ ImageIs(mount.image)

\* What was written: whole pages.
PageFull(page) == IsSeq(page) /\ Len(page) = PageSize
DiffTyped ==
  \A n \in Names : /\ diff[n].size \in Nat
                   /\ \A p \in DOMAIN diff[n].pages : PageFull(diff[n].pages[p])

\* Zeros behind what was read.
LEMMA ZeroPaddedIs ==
  ASSUME NEW read, NEW have \in Nat, RangeOf(read, have), NEW len \in Nat, have <= len
  PROVE  RangeOf(ZeroPadded(read, len), len)
<1>1. CASE read.err # "none"
  <2>1. ZeroPadded(read, len) = read
    BY <1>1 DEF ZeroPadded
  <2>. QED
    BY <1>1, <2>1 DEF RangeOf
<1>2. CASE read.err = "none"
  <2>1. IsSeq(read.bytes) /\ Len(read.bytes) = have
    BY <1>2 DEF RangeOf
  <2>2. PICK m \in Nat : m = len - have /\ have + m = len
    <3>1. len - have \in Nat /\ have + (len - have) = len
      OBVIOUS
    <3>. QED
      BY <3>1
  <2>3. PICK zeros : zeros = [i \in 1..m |-> 0]
    OBVIOUS
  <2>4. IsSeq(zeros) /\ Len(zeros) = m
    BY <2>3 DEF IsSeq
  <2>5. PICK z : z = read.bytes \o zeros
    OBVIOUS
  <2>6. JoinOf(read.bytes, zeros, z)
    BY <2>1, <2>4, <2>5, JoinIs
  <2>7. IsSeq(z) /\ Len(z) = len
    BY <2>1, <2>2, <2>4, <2>6 DEF JoinOf
  <2>8. RangeOf(Ok(z), len)
    BY <2>7, OkRange
  <2>9. ZeroPadded(read, len) = Ok(z)
    BY <1>2, <2>1, <2>2, <2>3, <2>5 DEF ZeroPadded
  <2>. QED
    BY <2>8, <2>9
<1>. QED
  BY <1>1, <1>2

\* A part of one page of an entry.
LEMMA PagePartIs ==
  ASSUME Mounted, MountTyped, DiffTyped, NEW n \in Names, NEW source, NEW size \in Nat,
         NEW p \in Nat, NEW from \in Nat, NEW to \in Nat,
         PageStart(p) <= from, from < PageStart(p + 1), from <= to, to <= PageStart(p + 1)
  PROVE  RangeOf(PagePart(n, source, size, from, to), to - from)
<1>1. from \div PageSize = p /\ from % PageSize = from - PageStart(p)
  BY PageIs
<1>2. PICK P \in Nat \ {0} : P = PageSize
  BY CacheAssumption
<1>3. PICK u \in Nat : u = PageStart(p) /\ u + P = PageStart(p + 1)
  BY <1>2, NextPage
<1>4. PICK len \in Nat : len = to - from
  <2>1. to - from \in Nat
    OBVIOUS
  <2>. QED
    BY <2>1
<1>5. CASE p \in DOMAIN diff[n].pages
  <2>1. PICK page : page = diff[n].pages[p]
    OBVIOUS
  <2>2. IsSeq(page) /\ Len(page) = P
    BY <1>2, <1>5, <2>1 DEF DiffTyped, PageFull
  <2>3. PICK a \in Nat \ {0} : a = from - u + 1
    <3>1. from - u + 1 \in Nat \ {0}
      BY <1>3
    <3>. QED
      BY <3>1
  <2>4. a + len - 1 <= P
    BY <1>3, <1>4, <2>3
  <2>5. PICK x : x = SubSeq(page, a, a + len - 1)
    OBVIOUS
  <2>6. PartOf(page, a, len, x)
    BY <2>2, <2>4, <2>5, PartIs
  <2>7. RangeOf(Ok(x), len)
    BY <2>6, OkRange DEF PartOf
  <2>8. a + len - 1 = (from - u) + (to - from) /\ a = (from - u) + 1
    BY <1>3, <1>4, <2>3
  <2>9. PagePart(n, source, size, from, to) = Ok(x)
    BY <1>1, <1>3, <1>5, <2>1, <2>5, <2>8 DEF PagePart, DirtyPart
  <2>. QED
    BY <1>4, <2>7, <2>9
<1>6. CASE p \notin DOMAIN diff[n].pages
  <2>1. PICK end \in Nat : end = SourceEnd(size, from, to) /\ from <= end /\ end <= to
    BY DEF SourceEnd, Lesser
  <2>2. PICK have \in Nat : have = end - from /\ have <= len
    <3>1. end - from \in Nat /\ end - from <= len
      BY <1>4, <2>1
    <3>. QED
      BY <3>1
  <2>3. PICK part : part = SourcePart(source, from, end)
    OBVIOUS
  <2>4. RangeOf(part, have)
    <3>1. CASE end = from
      <4>1. have = 0 /\ part = Ok(<<>>)
        BY <2>2, <2>3, <3>1 DEF SourcePart
      <4>. QED
        BY <4>1, EmptyRange
    <3>2. CASE end # from
      <4>1. PICK zip : zip = mount.archive
        OBVIOUS
      <4>2. PICK image : image = mount.image
        OBVIOUS
      <4>3. Blocks(zip) /\ image.exists /\ ImageOk(image)
        BY <4>1, <4>2 DEF MountTyped, ImageIs
      <4>4. RangeOf(ReadEntry(zip, image, source, from, have), have)
        BY <4>3, ReadEntryIs
      <4>5. part = ReadEntry(zip, image, source, from, have)
        BY <2>2, <2>3, <3>2, <4>1, <4>2 DEF SourcePart
      <4>. QED
        BY <4>4, <4>5
    <3>. QED
      BY <3>1, <3>2
  <2>5. RangeOf(ZeroPadded(part, len), len)
    BY <2>2, <2>4, ZeroPaddedIs
  <2>6. PagePart(n, source, size, from, to) = ZeroPadded(part, len)
    BY <1>1, <1>4, <1>6, <2>1, <2>3 DEF PagePart
  <2>. QED
    BY <1>4, <2>5, <2>6
<1>. QED
  BY <1>5, <1>6

\* Parts behind each other.
JoinedOf(r) == r.err = "none" => IsSeq(r.bytes)

\* The parts of an entry behind each other.
LEMMA JoinedIs ==
  ASSUME NEW m \in Nat, NEW parts, parts = [k \in 1..m |-> parts[k]],
         \A k \in 1..m : JoinedOf(parts[k])
  PROVE  JoinedOf(Joined(parts))
<1>1. Len(parts) = m
  OBVIOUS
<1>2. PICK failed : failed = {k \in 1..m : parts[k].err # "none"}
  OBVIOUS
<1>3. CASE failed # {}
  <2>1. failed \subseteq Nat
    BY <1>2
  <2>2. Min(failed) \in failed
    BY <1>3, <2>1, MinIs
  <2>3. parts[Min(failed)].err # "none"
    BY <1>2, <2>2
  <2>4. RangeOf(Err(parts[Min(failed)].err), 0)
    BY <2>3, NoRange
  <2>5. Joined(parts) = Err(parts[Min(failed)].err)
    BY <1>1, <1>2, <1>3 DEF Joined
  <2>. QED
    BY <2>4, <2>5 DEF JoinedOf, RangeOf
<1>4. CASE failed = {}
  <2>1. PICK S : S = [k \in 1..m |-> parts[k].bytes]
    OBVIOUS
  <2>2. ASSUME NEW k \in 1..m PROVE IsSeq(S[k])
    <3>1. parts[k].err = "none" /\ S[k] = parts[k].bytes
      BY <1>2, <1>4, <2>1
    <3>. QED
      BY <3>1 DEF JoinedOf
  <2>3. PICK x : x = FlattenSeq(Pre(S, m))
    OBVIOUS
  <2>4. m \in 0..m
    OBVIOUS
  <2>5. FlatOf(S, m, x)
    BY <2>2, <2>3, <2>4, FlattenOf
  <2>6. Pre(S, m) = [k \in 1..m |-> parts[k].bytes]
    BY <2>1 DEF Pre
  <2>7. RangeOf(Ok(x), Len(x))
    BY <2>5, OkRange DEF FlatOf
  <2>8. Joined(parts) = Ok(x)
    BY <1>1, <1>2, <1>4, <2>3, <2>6 DEF Joined
  <2>. QED
    BY <2>7, <2>8 DEF JoinedOf, RangeOf
<1>. QED
  BY <1>3, <1>4

\* The bytes of an entry, page by page.
LEMMA PagesAre ==
  ASSUME Mounted, MountTyped, DiffTyped, NEW n \in Names, NEW source, NEW size \in Nat,
         NEW from \in Nat, NEW to \in Nat
  PROVE  JoinedOf(Pages(n, source, size, from, to))
<1>1. CASE from >= to
  <2>1. RangeOf(Ok(<<>>), 0)
    BY EmptyRange
  <2>2. Pages(n, source, size, from, to) = Ok(<<>>)
    BY <1>1 DEF Pages
  <2>. QED
    BY <2>1, <2>2 DEF JoinedOf, RangeOf
<1>2. CASE ~(from >= to)
  <2>1. PICK first \in Nat : first = from \div PageSize /\ PageStart(first) <= from /\ from < PageStart(first + 1)
    <3>1. PICK q \in Nat : q = from \div PageSize
      BY PageHolds
    <3>2. PICK r \in 0..(PageSize - 1) : r = from % PageSize
      BY PageHolds
    <3>3. from = PageStart(q) + r
      BY <3>1, <3>2, PageHolds
    <3>4. PageSize \in Nat /\ PageStart(q) \in Nat /\ PageStart(q + 1) = PageStart(q) + PageSize
      BY NextPage
    <3>5. PageStart(q) <= from /\ from < PageStart(q + 1)
      BY <3>2, <3>3, <3>4
    <3>. QED
      BY <3>1, <3>5
  <2>2. PICK count \in Nat : count = PageCount(to)
    <3>1. to + PageSize - 1 \in Nat
      BY CacheAssumption
    <3>2. PICK a \in Nat : a = to + PageSize - 1
      BY <3>1
    <3>3. a \div PageSize \in Nat
      BY PageHolds
    <3>. QED
      BY <3>2, <3>3 DEF PageCount
  <2>. DEFINE Whole(p) == PagePart(n, source, size, Greater(from, PageStart(p)),
                                   Lesser(to, PageStart(p + 1)))
  <2>3. ASSUME NEW p \in Nat, first <= p, p < count PROVE JoinedOf(Whole(p))
    <3>1. PICK u \in Nat : u = PageStart(p)
      BY NextPage
    <3>2. PICK v \in Nat : v = PageStart(p + 1) /\ u < v
      BY <3>1, NextPage
    <3>3. u < to
      BY <2>2, <2>3, <3>1, LastPage
    <3>4. from < v
      <4>1. CASE p = first
        BY <2>1, <3>2, <4>1
      <4>2. CASE first < p
        <5>1. PageStart(first) + PageSize <= u /\ PageStart(first) \in Nat
          BY <3>1, <4>2, PagesOrdered
        <5>2. PageStart(first + 1) = PageStart(first) + PageSize /\ PageSize \in Nat
          BY NextPage
        <5>. QED
          BY <2>1, <3>2, <5>1, <5>2
      <4>. QED
        BY <2>3, <4>1, <4>2
    <3>5. PICK a \in Nat : a = Greater(from, u) /\ u <= a /\ a < v /\ a < to
      BY <1>2, <3>2, <3>3, <3>4 DEF Greater
    <3>6. PICK b \in Nat : b = Lesser(to, v) /\ b <= v /\ a <= b
      BY <3>5 DEF Lesser
    <3>7. RangeOf(PagePart(n, source, size, a, b), b - a)
      BY <3>1, <3>2, <3>5, <3>6, PagePartIs
    <3>8. Whole(p) = PagePart(n, source, size, a, b)
      BY <3>1, <3>2, <3>5, <3>6
    <3>. QED
      BY <3>7, <3>8 DEF JoinedOf, RangeOf
  <2>4. PICK parts : parts = [k \in 1..(count - first) |-> Whole(first + k - 1)]
    OBVIOUS
  <2>5. PICK m \in Nat : 1..(count - first) = 1..m /\ (m # 0 => m = count - first)
    <3>1. CASE count - first > 0
      <4>1. count - first \in Nat
        BY <3>1
      <4>. QED
        BY <4>1
    <3>2. CASE ~(count - first > 0)
      <4>1. 1..(count - first) = {} /\ 1..0 = {}
        BY <3>2
      <4>. QED
        BY <4>1
    <3>. QED
      BY <3>1, <3>2
  <2>6. ASSUME NEW k \in 1..m PROVE JoinedOf(parts[k])
    <3>1. PICK p \in Nat : p = first + k - 1 /\ first <= p /\ p < count
      <4>1. first + k - 1 \in Nat /\ first <= first + k - 1 /\ first + k - 1 < count
        BY <2>5
      <4>. QED
        BY <4>1
    <3>2. parts[k] = Whole(p)
      BY <2>4, <2>5, <3>1
    <3>. HIDE DEF Whole
    <3>. QED
      BY <2>3, <3>1, <3>2
  <2>7. parts = [k \in 1..m |-> parts[k]]
    BY <2>4, <2>5
  <2>8. JoinedOf(Joined(parts))
    BY <2>6, <2>7, JoinedIs
  <2>9. Pages(n, source, size, from, to) = Joined(parts)
    BY <1>2, <2>1, <2>2, <2>4 DEF Pages
  <2>. QED
    BY <2>8, <2>9
<1>. QED
  BY <1>1, <1>2

-----------------------------------------------------------------------------
(* What a commit makes. *)

\* No piece.
LEMMA NoPieces == PiecesAre(<<>>)
<1>1. PICK o : o = <<>>
  OBVIOUS
<1>2. Len(o) = 0 /\ o = [k \in 1..0 |-> o[k]]
  BY <1>1
<1>3. PiecesAre(o)
  BY <1>2 DEF PiecesAre, IsSeq
<1>. QED
  BY <1>1, <1>3

\* One piece.
LEMMA OnePiece == ASSUME NEW p, PieceIs(p) PROVE PiecesAre(<<p>>)
<1>1. PICK o : o = <<p>>
  OBVIOUS
<1>2. Len(o) = 1 /\ o[1] = p /\ o = [k \in 1..1 |-> o[k]]
  BY <1>1
<1>3. \A i \in 1..Len(o) : PieceIs(o[i])
  BY <1>2
<1>4. PiecesAre(o)
  BY <1>2, <1>3 DEF PiecesAre, IsSeq
<1>. QED
  BY <1>1, <1>4

\* Pieces behind each other.
LEMMA JoinPieces ==
  ASSUME NEW s, PiecesAre(s), NEW t, PiecesAre(t) PROVE PiecesAre(s \o t)
<1>1. PICK z : z = s \o t
  OBVIOUS
<1>2. IsSeq(s) /\ IsSeq(t)
  BY DEF PiecesAre
<1>3. JoinOf(s, t, z)
  BY <1>1, <1>2, JoinIs
<1>4. Len(s) \in Nat /\ Len(t) \in Nat
  BY <1>2 DEF IsSeq
<1>5. ASSUME NEW i \in 1..Len(z) PROVE PieceIs(z[i])
  <2>1. CASE i <= Len(s)
    <3>1. i \in 1..Len(s)
      BY <1>3, <1>4, <2>1 DEF JoinOf
    <3>2. z[i] = s[i] /\ PieceIs(s[i])
      BY <1>3, <3>1 DEF JoinOf, PiecesAre
    <3>. QED
      BY <3>2
  <2>2. CASE ~(i <= Len(s))
    <3>1. PICK k \in 1..Len(t) : i = Len(s) + k
      <4>1. i - Len(s) \in 1..Len(t) /\ i = Len(s) + (i - Len(s))
        BY <1>3, <1>4, <2>2 DEF JoinOf
      <4>. QED
        BY <4>1
    <3>2. z[i] = t[k] /\ PieceIs(t[k])
      BY <1>3, <3>1 DEF JoinOf, PiecesAre
    <3>. QED
      BY <3>2
  <2>. QED
    BY <2>1, <2>2
<1>. QED
  BY <1>1, <1>3, <1>5 DEF PiecesAre, JoinOf

\* The pieces of every entry behind each other.
LEMMA FlatPieces ==
  ASSUME NEW m \in Nat, NEW S, \A i \in 1..m : PiecesAre(S[i])
  PROVE  PiecesAre(FlattenSeq([i \in 1..m |-> S[i]]))
<1>1. PICK x : x = FlattenSeq(Pre(S, m))
  OBVIOUS
<1>2. \A i \in 1..m : IsSeq(S[i])
  BY DEF PiecesAre
<1>3. m \in 0..m
  OBVIOUS
<1>4. FlatOf(S, m, x)
  BY <1>1, <1>2, <1>3, FlattenOf
<1>5. ASSUME NEW j \in 1..Len(x) PROVE PieceIs(x[j])
  <2>1. PICK i \in 1..m : \E k \in 1..Len(S[i]) : x[j] = S[i][k]
    BY <1>4 DEF FlatOf
  <2>2. PICK k \in 1..Len(S[i]) : x[j] = S[i][k]
    BY <2>1
  <2>3. PieceIs(S[i][k])
    BY <2>1 DEF PiecesAre
  <2>. QED
    BY <2>2, <2>3
<1>6. PiecesAre(x)
  BY <1>4, <1>5 DEF PiecesAre, FlatOf
<1>. QED
  BY <1>1, <1>6 DEF Pre

\* Contents that are stored are cells.
LEMMA StoredIs == ASSUME NEW method, NEW bytes, IsSeq(bytes) PROVE Blocks(Stored(method, bytes))
<1>1. CASE method = 0
  <2>1. PICK m \in Nat : m = Len(bytes)
    BY DEF IsSeq
  <2>2. PICK z : z = [i \in 1..m |-> StoredByte(bytes[i])]
    OBVIOUS
  <2>3. Len(z) = m /\ z = [i \in 1..m |-> z[i]]
    BY <2>2
  <2>4. ASSUME NEW i \in 1..m PROVE CellOk(z[i])
    <3>1. PICK c : c = StoredByte(bytes[i])
      OBVIOUS
    <3>2. c.cell = "stored"
      BY <3>1 DEF StoredByte
    <3>3. CellOk(c)
      BY <3>2 DEF CellOk
    <3>. QED
      BY <2>2, <3>1, <3>3
  <2>5. Blocks(z)
    BY <2>3, <2>4 DEF Blocks, IsSeq
  <2>. QED
    BY <1>1, <2>1, <2>2, <2>5 DEF Stored
<1>2. CASE method # 0
  BY <1>2, DeflateIs DEF Stored
<1>. QED
  BY <1>1, <1>2

\* What is known of an open mount when it commits.
CommitReady == Mounted /\ MountTyped /\ DiffTyped /\ OwnInv

\* An entry whose contents are written.
LEMMA ContentPiece ==
  ASSUME CommitReady, NEW n \in Names, NEW method, NEW source, NEW size \in Nat
  PROVE  PieceIs(PieceOf(n, method, Content(n, source, size)))
<1>1. PICK to \in Nat : to = IF diff[n].dirty THEN diff[n].size ELSE size
  BY DEF CommitReady, DiffTyped
<1>2. PICK c : c = Pages(n, source, size, 0, to)
  OBVIOUS
<1>3. JoinedOf(c)
  <2>1. 0 \in Nat
    OBVIOUS
  <2>. QED
    BY <1>2, <2>1, PagesAre DEF CommitReady
<1>4. Content(n, source, size) = c
  BY <1>1, <1>2 DEF Content
<1>5. CASE c.err # "none" \/ ProviderOf(method) \notin Builtin
  BY <1>4, <1>5, RefusedPiece DEF PieceOf
<1>6. CASE ~(c.err # "none" \/ ProviderOf(method) \notin Builtin)
  <2>1. IsSeq(c.bytes)
    BY <1>3, <1>6 DEF JoinedOf
  <2>2. Blocks(Stored(method, c.bytes))
    BY <2>1, StoredIs
  <2>3. PieceIs(Placed(n, method, c.bytes, Stored(method, c.bytes)))
    BY <2>1, <2>2, PlacedIs
  <2>. QED
    BY <1>4, <1>6, <2>3 DEF PieceOf
<1>. QED
  BY <1>5, <1>6

\* An entry that nothing changed.
Modes == {"full", "incremental"}

\* The piece of an entry that nothing changed.
LEMMA CleanPieceIs ==
  ASSUME CommitReady, NEW mode \in Modes, NEW e, EntryOk(e) PROVE PieceIs(CleanPiece(mode, e))
<1>1. Blocks(mount.archive) /\ e.name \in Names
  BY DEF CommitReady, MountTyped, EntryOk
<1>2. /\ PieceIs(InPlace(e)) /\ PieceIs(Verbatim(mount.archive, e))
      /\ PieceIs(Copied(mount.archive, e, e.name))
  BY <1>1, InPlaceIs, VerbatimIs, CopiedIs
<1>3. \/ CleanPiece(mode, e) = InPlace(e) \/ CleanPiece(mode, e) = Verbatim(mount.archive, e)
      \/ CleanPiece(mode, e) = Copied(mount.archive, e, e.name)
  BY DEF CleanPiece, Modes
<1>. QED
  BY <1>2, <1>3

\* What an entry of the archive becomes.
LEMMA SourcePiecesAre ==
  ASSUME CommitReady, NEW mode \in Modes, NEW e, EntryOk(e) PROVE PiecesAre(SourcePieces(mode, e))
<1>1. PICK n \in Names : n = e.name
  BY DEF EntryOk
<1>2. overlay[n].kind \in {"none", "tombstone", "created", "aliased"}
  BY DEF CommitReady, OwnInv
<1>3. CASE overlay[n].kind \in {"aliased", "tombstone"}
  <2>1. SourcePieces(mode, e) = <<>>
    BY <1>1, <1>3 DEF SourcePieces
  <2>. QED
    BY <2>1, NoPieces
<1>4. CASE overlay[n].kind = "created"
  <2>1. 0 \in Nat
    OBVIOUS
  <2>2. PieceIs(CreatedPiece(n))
    BY <2>1, ContentPiece DEF CreatedPiece
  <2>3. SourcePieces(mode, e) = <<CreatedPiece(n)>>
    BY <1>1, <1>4 DEF SourcePieces
  <2>. QED
    BY <2>2, <2>3, OnePiece
<1>5. CASE overlay[n].kind = "none"
  <2>1. PICK p : p = IF diff[n].dirty THEN RewrittenPiece(n, e) ELSE CleanPiece(mode, e)
    OBVIOUS
  <2>2. e.uncomp \in Nat
    BY DEF EntryOk
  <2>3. PieceIs(RewrittenPiece(n, e))
    BY <2>2, ContentPiece DEF RewrittenPiece
  <2>4. PieceIs(p)
    BY <2>1, <2>3, CleanPieceIs
  <2>5. SourcePieces(mode, e) = <<p>>
    BY <1>1, <1>5, <2>1 DEF SourcePieces
  <2>. QED
    BY <2>4, <2>5, OnePiece
<1>. QED
  BY <1>2, <1>3, <1>4, <1>5

\* What was created.
LEMMA CreatedPiecesAre ==
  ASSUME CommitReady, NEW n \in Names, NEW entries PROVE PiecesAre(CreatedPieces(n, entries))
<1>1. 0 \in Nat
  OBVIOUS
<1>2. PieceIs(CreatedPiece(n))
  BY <1>1, ContentPiece DEF CreatedPiece
<1>3. CreatedPieces(n, entries) = <<>> \/ CreatedPieces(n, entries) = <<CreatedPiece(n)>>
  BY DEF CreatedPieces
<1>. QED
  BY <1>2, <1>3, NoPieces, OnePiece

\* What was renamed.
LEMMA AliasPiecesAre ==
  ASSUME CommitReady, NEW n \in Names, NEW entries, IsSeq(entries),
         \A i \in 1..Len(entries) : EntryOk(entries[i])
  PROVE  PiecesAre(AliasPieces(n, entries))
<1>1. PICK m \in Nat : m = Len(entries)
  BY DEF IsSeq
<1>2. PICK sources : sources = {i \in 1..m : entries[i].name = overlay[n].source}
  OBVIOUS
<1>3. PICK p : p = AliasPiece(n, entries)
  OBVIOUS
<1>4. CASE sources = {}
  <2>1. p = Refused
    BY <1>1, <1>2, <1>3, <1>4 DEF AliasPiece
  <2>2. PieceIs(p)
    BY <2>1, RefusedPiece
  <2>. QED
    BY <1>3, <2>2, NoPieces, OnePiece DEF AliasPieces
<1>5. CASE sources # {}
  <2>1. sources \subseteq Nat /\ \A i \in sources : i \in 1..m
    BY <1>2
  <2>2. Min(sources) \in sources
    BY <1>5, <2>1, MinIs
  <2>3. PICK i \in 1..m : i = Min(sources)
    BY <2>1, <2>2
  <2>4. PICK e : e = entries[i]
    OBVIOUS
  <2>5. EntryOk(e) /\ e.uncomp \in Nat /\ Blocks(mount.archive)
    BY <1>1, <2>4 DEF EntryOk, CommitReady, MountTyped
  <2>6. p = RewrittenPiece(n, e) \/ p = Copied(mount.archive, e, n)
    BY <1>1, <1>2, <1>3, <1>5, <2>3, <2>4 DEF AliasPiece, AliasOf
  <2>7. PieceIs(RewrittenPiece(n, e))
    BY <2>5, ContentPiece DEF RewrittenPiece
  <2>8. PieceIs(Copied(mount.archive, e, n))
    BY <2>5, CopiedIs
  <2>9. PieceIs(p)
    BY <2>6, <2>7, <2>8
  <2>. QED
    BY <1>3, <2>9, NoPieces, OnePiece DEF AliasPieces
<1>. QED
  BY <1>4, <1>5

\* The parts of what a commit makes: of the entries of the archive, what was created,
\* the aliases.
BuildParts(mode, order, S, C, A) ==
  LET es == Parse(mount.archive).entries IN
  /\ IsSeq(es) /\ \A i \in 1..Len(es) : EntryOk(es[i])
  /\ S = [i \in 1..Len(es) |-> SourcePieces(mode, es[i])]
  /\ Len(order) \in Nat /\ \A i \in 1..Len(order) : order[i] \in Names
  /\ C = [i \in 1..Len(order) |-> CreatedPieces(order[i], es)]
  /\ A = [i \in 1..Len(order) |-> AliasPieces(order[i], es)]
  /\ \A i \in 1..Len(es) : PiecesAre(S[i])
  /\ PiecesAre(FlattenSeq(S)) /\ PiecesAre(FlattenSeq(C)) /\ PiecesAre(FlattenSeq(A))
  /\ BuildPieces(mode, order) = (FlattenSeq(S) \o FlattenSeq(C)) \o FlattenSeq(A)

\* They are pieces.
LEMMA BuildPartsAre ==
  ASSUME CommitReady, NEW mode \in Modes, NEW order \in Orders
  PROVE  \E S, C, A : BuildParts(mode, order, S, C, A)
<1>1. PICK ar : ar = Parse(mount.archive)
  OBVIOUS
<1>2. PICK es : es = ar.entries
  OBVIOUS
<1>3. IsSeq(es) /\ \A i \in 1..Len(es) : EntryOk(es[i])
  <2>1. Blocks(mount.archive) /\ ar.ok
    BY <1>1 DEF CommitReady, MountTyped
  <2>2. ParsedIs(ar)
    BY <1>1, <2>1, ParseIs
  <2>. QED
    BY <1>2, <2>1, <2>2 DEF ParsedIs
<1>4. PICK m \in Nat : m = Len(es)
  BY <1>3 DEF IsSeq
<1>5. PICK k \in Nat : k = Cardinality(Names)
  BY ZipAssumption, FS_CardinalityType
<1>6. Len(order) = k /\ \A i \in 1..k : order[i] \in Names
  BY <1>5 DEF Orders
<1>7. PICK S : S = [i \in 1..m |-> SourcePieces(mode, es[i])]
  OBVIOUS
<1>8. PICK C : C = [i \in 1..k |-> CreatedPieces(order[i], es)]
  OBVIOUS
<1>9. PICK A : A = [i \in 1..k |-> AliasPieces(order[i], es)]
  OBVIOUS
<1>10. ASSUME NEW i \in 1..m PROVE PiecesAre(S[i])
  <2>1. EntryOk(es[i])
    BY <1>3, <1>4
  <2>2. PiecesAre(SourcePieces(mode, es[i]))
    BY <2>1, SourcePiecesAre
  <2>. QED
    BY <1>7, <2>2
<1>11. ASSUME NEW i \in 1..k PROVE PiecesAre(C[i]) /\ PiecesAre(A[i])
  <2>1. PICK n \in Names : n = order[i]
    BY <1>6
  <2>2. PiecesAre(CreatedPieces(n, es)) /\ PiecesAre(AliasPieces(n, es))
    BY <1>3, CreatedPiecesAre, AliasPiecesAre
  <2>. QED
    BY <1>8, <1>9, <2>1, <2>2
<1>12. S = [i \in 1..m |-> S[i]] /\ C = [i \in 1..k |-> C[i]] /\ A = [i \in 1..k |-> A[i]]
  BY <1>7, <1>8, <1>9
<1>13. PiecesAre(FlattenSeq(S))
  <2>1. PiecesAre(FlattenSeq([i \in 1..m |-> S[i]]))
    BY <1>10, FlatPieces
  <2>. QED
    BY <1>12, <2>1
<1>14. PiecesAre(FlattenSeq(C))
  <2>1. PiecesAre(FlattenSeq([i \in 1..k |-> C[i]]))
    BY <1>11, FlatPieces
  <2>. QED
    BY <1>12, <2>1
<1>15. PiecesAre(FlattenSeq(A))
  <2>1. PiecesAre(FlattenSeq([i \in 1..k |-> A[i]]))
    BY <1>11, FlatPieces
  <2>. QED
    BY <1>12, <2>1
<1>16. BuildPieces(mode, order) = (FlattenSeq(S) \o FlattenSeq(C)) \o FlattenSeq(A)
  BY <1>1, <1>2, <1>4, <1>6, <1>7, <1>8, <1>9 DEF BuildPieces
<1>17. BuildParts(mode, order, S, C, A)
  BY <1>1, <1>2, <1>3, <1>4, <1>6, <1>7, <1>8, <1>9, <1>10, <1>13, <1>14, <1>15, <1>16
     DEF BuildParts
<1>. QED
  BY <1>17

\* All pieces of a commit.
LEMMA BuildPiecesAre ==
  ASSUME CommitReady, NEW mode \in Modes, NEW order \in Orders
  PROVE  PiecesAre(BuildPieces(mode, order))
<1>1. PICK S, C, A : BuildParts(mode, order, S, C, A)
  BY BuildPartsAre
<1>2. PiecesAre(FlattenSeq(S) \o FlattenSeq(C))
  BY SMTT(40), <1>1, JoinPieces DEF BuildParts
<1>3. PiecesAre((FlattenSeq(S) \o FlattenSeq(C)) \o FlattenSeq(A))
  BY <1>1, <1>2, JoinPieces DEF BuildParts
<1>. QED
  BY <1>1, <1>3 DEF BuildParts

\* Cells written over a file.
LEMMA OverwrittenIs ==
  ASSUME NEW zip, Blocks(zip), NEW off \in Nat, NEW cells, Blocks(cells)
  PROVE  Blocks(Overwritten(zip, off, cells))
<1>1. PICK n \in Nat : n = Len(zip)
  BY DEF Blocks, IsSeq
<1>2. PICK c \in Nat : c = Len(cells)
  BY DEF Blocks, IsSeq
<1>3. PICK m \in Nat : m = Greater(off + c, n)
  BY DEF Greater
<1>4. PICK z : z = [i \in 1..m |-> IF i > off /\ i <= off + c THEN cells[i - off]
                                   ELSE IF i <= n THEN zip[i] ELSE Pad]
  OBVIOUS
<1>5. Len(z) = m /\ z = [i \in 1..m |-> z[i]]
  BY <1>4
<1>6. ASSUME NEW i \in 1..m PROVE CellOk(z[i])
  <2>1. CASE i > off /\ i <= off + c
    <3>1. i - off \in 1..c
      BY <2>1
    <3>2. CellOk(cells[i - off])
      BY <1>2, <3>1 DEF Blocks
    <3>. QED
      BY <1>4, <2>1, <3>2
  <2>2. CASE ~(i > off /\ i <= off + c) /\ i <= n
    <3>1. CellOk(zip[i])
      BY <1>1, <2>2 DEF Blocks
    <3>2. z[i] = zip[i]
      BY <1>4, <2>2
    <3>. QED
      BY <3>1, <3>2
  <2>3. CASE ~(i > off /\ i <= off + c) /\ ~(i <= n)
    <3>1. Pad.cell = "pad"
      BY DEF Pad
    <3>2. CellOk(Pad)
      BY <3>1 DEF CellOk
    <3>3. z[i] = Pad
      BY <1>4, <2>3
    <3>. QED
      BY <3>2, <3>3
  <2>. QED
    BY <2>1, <2>2, <2>3
<1>7. Overwritten(zip, off, cells) = z
  BY <1>1, <1>2, <1>3, <1>4 DEF Overwritten
<1>. QED
  BY <1>5, <1>6, <1>7 DEF Blocks, IsSeq

\* What a commit leaves are cells.
LEMMA BuiltIs ==
  ASSUME CommitReady, Blocks(disk.zip), NEW mode \in Modes, NEW order \in Orders
  PROVE  Built(mode, order).ok => Blocks(Built(mode, order).cells)
<1>1. Refused.ok = FALSE
  BY DEF Refused
<1>2. PICK pieces : pieces = BuildPieces(mode, order)
  OBVIOUS
<1>3. PiecesAre(pieces)
  BY <1>2, BuildPiecesAre
<1>4. CASE mode = "full"
  <2>1. PICK new : new = Laid(0, pieces)
    OBVIOUS
  <2>2. 0 \in Nat
    OBVIOUS
  <2>3. new.ok => Blocks(new.cells)
    BY <1>3, <2>1, <2>2, LaidIs
  <2>4. Built(mode, order) = Verified(new)
    BY <1>2, <1>4, <2>1 DEF Built
  <2>5. Verified(new) = Refused \/ (new.ok /\ Verified(new) = new)
    BY DEF Verified
  <2>. QED
    BY <1>1, <2>3, <2>4, <2>5
<1>5. CASE mode = "incremental"
  <2>1. PICK base \in Nat : base = Len(mount.archive)
    BY DEF CommitReady, MountTyped, Blocks, IsSeq
  <2>2. PICK part : part = Laid(base, pieces)
    OBVIOUS
  <2>3. part.ok => Blocks(part.cells)
    BY <1>3, <2>2, LaidIs
  <2>4. PICK z : z = Overwritten(disk.zip, base, part.cells)
    OBVIOUS
  <2>5. part.ok => Blocks(z)
    BY <2>3, <2>4, OverwrittenIs
  <2>6. PICK done : done = [ok |-> TRUE, cells |-> z]
    OBVIOUS
  <2>7. Built(mode, order) = Appended(part)
    BY <1>2, <1>5, <2>1, <2>2 DEF Built
  <2>8. Appended(part) = Refused \/ (part.ok /\ Appended(part) = done)
    BY <2>1, <2>4, <2>6 DEF Appended
  <2>9. done.cells = z
    BY <2>6
  <2>. QED
    BY <1>1, <2>5, <2>7, <2>8, <2>9
<1>. QED
  BY <1>4, <1>5 DEF Modes

-----------------------------------------------------------------------------
(* What another process writes into a file. *)

\* A cell with other data in it: of the same kind, in a record all but the CRC.
SameRecord(c, d) ==
  /\ d.uncomp = c.uncomp /\ d.comp = c.comp /\ d.lho = c.lho /\ d.z64 = c.z64
  /\ d.name = c.name
SameCell(c, d) ==
  /\ c.cell = d.cell
  /\ c.cell \in {"eocd", "eocd64", "locator", "lfh", "pad", "descriptor", "end"} => c = d
  /\ c.cell = "cdfh" => SameRecord(c, d)
Other(b) == IF b >= 0 THEN b + 1 ELSE b
Changed(bytes) == [k \in 1..Len(bytes) |-> Other(bytes[k])]
CellScribbled(c) ==
  CASE c.cell = "stored" -> StoredByte(Other(c.b))
    [] c.cell = "block"  -> [c EXCEPT !.syms = Changed(@)]
    [] c.cell = "opaque" -> Opaque(Changed(c.bytes))
    [] c.cell = "cdfh"   -> [c EXCEPT !.crc = Changed(@)]
    [] OTHER -> c

\* A write changes neither the kind of a cell nor the sizes in it.
LEMMA ScribbledCell ==
  ASSUME NEW c, CellOk(c)
  PROVE  CellOk(CellScribbled(c)) /\ SameCell(c, CellScribbled(c))
<1>1. CASE c.cell = "stored"
  <2>1. PICK d : d = StoredByte(Other(c.b))
    OBVIOUS
  <2>2. d.cell = "stored"
    BY <2>1 DEF StoredByte
  <2>3. CellScribbled(c) = d
    BY <1>1, <2>1 DEF CellScribbled
  <2>4. CellOk(d)
    BY <2>2 DEF CellOk
  <2>5. SameCell(c, d)
    BY <1>1, <2>2 DEF SameCell
  <2>. QED
    BY <2>3, <2>4, <2>5
<1>2. CASE c.cell = "block"
  <2>1. PICK x : x = Changed(c.syms)
    OBVIOUS
  <2>2. IsSeq(x)
    <3>1. AnySeq(c.syms)
      BY <1>2 DEF CellOk
    <3>2. Len(c.syms) \in Nat
      BY <3>1, AnySeqIs DEF IsSeq
    <3>. QED
      BY <2>1, <3>2 DEF Changed, IsSeq
  <2>3. PICK d : d = [c EXCEPT !.syms = x]
    OBVIOUS
  <2>10. c = Block(c.syms, c.final)
    BY <1>2 DEF CellOk
  <2>4. d = [cell |-> "block", syms |-> x, final |-> c.final]
    BY <2>3, <2>10 DEF Block
  <2>5. d.cell = "block" /\ d.syms = x /\ d = Block(d.syms, d.final)
    BY <2>4 DEF Block
  <2>6. CellScribbled(c) = d
    BY <1>2, <2>1, <2>3 DEF CellScribbled
  <2>7. AnySeq(x)
    BY <2>2, AnySeqIs
  <2>8. CellOk(d)
    BY <2>5, <2>7 DEF CellOk
  <2>9. SameCell(c, d)
    BY <1>2, <2>5 DEF SameCell
  <2>. QED
    BY <2>6, <2>8, <2>9
<1>3. CASE c.cell = "opaque"
  <2>1. PICK d : d = Opaque(Changed(c.bytes))
    OBVIOUS
  <2>2. d.cell = "opaque"
    BY <2>1 DEF Opaque
  <2>3. CellScribbled(c) = d
    BY <1>3, <2>1 DEF CellScribbled
  <2>4. CellOk(d)
    BY <2>2 DEF CellOk
  <2>5. SameCell(c, d)
    BY <1>3, <2>2 DEF SameCell
  <2>. QED
    BY <2>3, <2>4, <2>5
<1>4. CASE c.cell = "cdfh"
  <2>1. PICK x : x = Changed(c.crc)
    OBVIOUS
  <2>2. PICK d : d = [c EXCEPT !.crc = x]
    OBVIOUS
  <2>3. CdRecord(c)
    BY <1>4 DEF CellOk
  <2>4. d = [cell |-> "cdfh", name |-> c.name, method |-> c.method, flags |-> c.flags,
             crc |-> x, comp |-> c.comp, uncomp |-> c.uncomp, lho |-> c.lho,
             z64 |-> c.z64, meta |-> c.meta]
    BY <2>2, <2>3 DEF CdRecord
  <2>5. /\ d.cell = "cdfh" /\ d.name = c.name /\ d.method = c.method /\ d.flags = c.flags
        /\ d.crc = x /\ d.comp = c.comp /\ d.uncomp = c.uncomp /\ d.lho = c.lho
        /\ d.z64 = c.z64 /\ d.meta = c.meta
    BY <2>4
  <2>6. d = [cell |-> "cdfh", name |-> d.name, method |-> d.method, flags |-> d.flags,
             crc |-> d.crc, comp |-> d.comp, uncomp |-> d.uncomp, lho |-> d.lho,
             z64 |-> d.z64, meta |-> d.meta]
    BY <2>4, <2>5
  <2>7. d.name \in Names /\ {d.comp, d.uncomp, d.lho} \subseteq Nat /\ d.z64 \in Seq(Nat)
    BY <2>3, <2>5 DEF CdRecord
  <2>8. CdRecord(d)
    BY <2>6, <2>7 DEF CdRecord
  <2>9. CellScribbled(c) = d
    BY <1>4, <2>1, <2>2 DEF CellScribbled
  <2>10. CellOk(d)
    BY <2>5, <2>8 DEF CellOk
  <2>11. SameCell(c, d)
    BY <1>4, <2>5 DEF SameCell, SameRecord
  <2>. QED
    BY <2>9, <2>10, <2>11
<1>5. CASE c.cell \notin {"stored", "block", "opaque", "cdfh"}
  <2>1. CellScribbled(c) = c
    BY <1>5 DEF CellScribbled
  <2>. QED
    BY <1>5, <2>1 DEF SameCell
<1>. QED
  BY <1>1, <1>2, <1>3, <1>4, <1>5
\* A file with other data in its cells.
Alike(zip, new) ==
  /\ Blocks(new) /\ Len(new) = Len(zip)
  /\ \A off \in Nat : SameCell(At(zip, off), At(new, off))

\* A file that was written into is like the one before.
LEMMA ScribbledAlike == ASSUME NEW zip, Blocks(zip) PROVE Alike(zip, Scribbled(zip))
<1>1. PICK n \in Nat : n = Len(zip)
  BY DEF Blocks, IsSeq
<1>2. PICK z : z = [i \in 1..n |-> CellScribbled(zip[i])]
  OBVIOUS
<1>3. Len(z) = n /\ z = [i \in 1..n |-> z[i]]
  BY <1>2
<1>4. ASSUME NEW i \in 1..n PROVE CellOk(z[i]) /\ SameCell(zip[i], z[i])
  <2>1. CellOk(zip[i])
    BY <1>1 DEF Blocks
  <2>2. CellOk(CellScribbled(zip[i])) /\ SameCell(zip[i], CellScribbled(zip[i]))
    BY <2>1, ScribbledCell
  <2>. QED
    BY <1>2, <2>2
<1>5. ASSUME NEW off \in Nat PROVE SameCell(At(zip, off), At(z, off))
  <2>1. CASE off < n
    <3>1. off + 1 \in 1..n
      BY <2>1
    <3>2. SameCell(zip[off + 1], z[off + 1])
      BY <1>4, <3>1
    <3>. QED
      BY <1>1, <1>3, <2>1, <3>2 DEF At
  <2>2. CASE ~(off < n)
    <3>1. At(zip, off) = [cell |-> "end"] /\ At(z, off) = [cell |-> "end"]
      BY <1>1, <1>3, <2>2 DEF At
    <3>2. PICK c : c = [cell |-> "end"]
      OBVIOUS
    <3>3. c.cell = "end"
      BY <3>2
    <3>4. SameCell(c, c)
      BY <3>3 DEF SameCell
    <3>. QED
      BY <3>1, <3>2, <3>4
  <2>. QED
    BY <2>1, <2>2
<1>6. Scribbled(zip) = z
  BY <1>1, <1>2 DEF Scribbled, CellScribbled, Changed, Other
<1>. QED
  BY <1>1, <1>3, <1>4, <1>5, <1>6 DEF Alike, Blocks, IsSeq

\* It has its end record at the same place.
LEMMA AlikeEocd ==
  ASSUME NEW zip, Blocks(zip), NEW new, Alike(zip, new)
  PROVE  /\ FindEocd(new) = FindEocd(zip)
         /\ FindEocd(zip) # NoEocd => At(zip, FindEocd(zip)).cell = "eocd"
<1>1. PICK n \in Nat : n = Len(zip)
  BY DEF Blocks, IsSeq
<1>2. Len(new) = n
  BY <1>1 DEF Alike
<1>. DEFINE T == {o \in 0..(n - 1) : EndsFile(zip, o, At(zip, o))}
            U == {o \in 0..(n - 1) : EndsFile(new, o, At(new, o))}
<1>3. \A o \in 0..(n - 1) : EndsFile(zip, o, At(zip, o)) <=> EndsFile(new, o, At(new, o))
  <2>. SUFFICES ASSUME NEW o \in 0..(n - 1)
                PROVE  EndsFile(zip, o, At(zip, o)) <=> EndsFile(new, o, At(new, o))
    OBVIOUS
  <2>1. SameCell(At(zip, o), At(new, o))
    BY DEF Alike
  <2>2. CASE At(zip, o).cell = "eocd"
    <3>1. At(zip, o) = At(new, o)
      BY <2>1, <2>2 DEF SameCell
    <3>. QED
      BY <1>1, <1>2, <3>1 DEF EndsFile
  <2>3. CASE At(zip, o).cell # "eocd"
    <3>1. At(new, o).cell # "eocd"
      BY <2>1, <2>3 DEF SameCell
    <3>. QED
      BY <2>3, <3>1 DEF EndsFile
  <2>. QED
    BY <2>2, <2>3
<1>4. T = U
  BY <1>3
<1>5. FindEocd(zip) = LastOf(T) /\ FindEocd(new) = LastOf(U)
  BY <1>1, <1>2 DEF FindEocd
<1>6. ASSUME T # {} PROVE At(zip, LastOf(T)).cell = "eocd"
  <2>1. T \subseteq 0..n
    OBVIOUS
  <2>2. \A o \in T : At(zip, o).cell = "eocd"
    BY DEF EndsFile
  <2>. HIDE DEF T
  <2>3. PICK x \in T : \A y \in T : y <= x
    BY <1>6, <2>1, GreatestNatural
  <2>4. LastOf(T) \in T
    BY <1>6, <2>3, Zenon DEF LastOf
  <2>. QED
    BY <2>2, <2>4
<1>7. T = {} => LastOf(T) = NoEocd
  BY DEF LastOf
<1>. HIDE DEF T, U
<1>. QED
  BY <1>4, <1>5, <1>6, <1>7

\* It has the same directory.
LEMMA AlikeDirectory ==
  ASSUME NEW zip, Blocks(zip), NEW new, Alike(zip, new)
  PROVE  Directory(new, FindEocd(new)) = Directory(zip, FindEocd(zip))
<1>1. PICK e : e = FindEocd(zip)
  OBVIOUS
<1>2. FindEocd(new) = e /\ (e # NoEocd => At(zip, e).cell = "eocd")
  BY <1>1, AlikeEocd
<1>3. CASE e = NoEocd
  BY <1>1, <1>2, <1>3 DEF Directory
<1>4. CASE e # NoEocd
  <2>1. e \in Nat
    BY <1>1, <1>4, FindEocdIs
  <2>2. PICK c : c = At(zip, e)
    OBVIOUS
  <2>3. At(new, e) = c
    <3>1. SameCell(c, At(new, e))
      BY <2>1, <2>2 DEF Alike
    <3>. QED
      BY <1>2, <1>4, <2>2, <3>1 DEF SameCell
  <2>4. SameCell(Pad, Pad)
    BY DEF SameCell, SameRecord
  <2>5. ASSUME e > 0
        PROVE  SameCell(Eocd64At(zip, At(zip, e - 1)), Eocd64At(new, At(new, e - 1)))
    <3>1. PICK p \in Nat : p = e - 1
      <4>1. e - 1 \in Nat
        BY <2>1, <2>5
      <4>. QED
        BY <4>1
    <3>2. PICK l : l = At(zip, p)
      OBVIOUS
    <3>3. SameCell(l, At(new, p)) /\ CellOk(l)
      BY <3>2, AtIs DEF Alike
    <3>4. CASE l.cell = "locator"
      <4>1. At(new, p) = l
        BY <3>3, <3>4 DEF SameCell
      <4>2. PICK a \in Nat : a = l.at
        BY <3>3, <3>4 DEF CellOk
      <4>3. SameCell(At(zip, a), At(new, a))
        BY DEF Alike
      <4>4. SameCell(Eocd64Or(At(zip, a)), Eocd64Or(At(new, a)))
        BY <2>4, <4>3 DEF Eocd64Or, SameCell
      <4>. QED
        BY <3>1, <3>2, <3>4, <4>1, <4>2, <4>4 DEF Eocd64At
    <3>5. CASE l.cell # "locator"
      <4>1. At(new, p).cell # "locator"
        BY <3>3, <3>5 DEF SameCell
      <4>. QED
        BY <2>4, <3>1, <3>2, <3>5, <4>1 DEF Eocd64At
    <3>. QED
      BY <3>4, <3>5
  <2>6. SameCell(c, c)
    BY DEF SameCell, SameRecord
  <2>7. PICK d : d = EndRecord(zip, e)
    OBVIOUS
  <2>8. PICK f : f = EndRecord(new, e)
    OBVIOUS
  <2>9. SameCell(d, f)
    BY <2>1, <2>2, <2>3, <2>4, <2>5, <2>6, <2>7, <2>8 DEF EndRecord
  <2>10. DirectoryOf(d, Len(zip)) = DirectoryOf(f, Len(zip))
    BY <2>9 DEF DirectoryOf, SameCell
  <2>11. Len(new) = Len(zip)
    BY DEF Alike
  <2>. QED
    BY <1>1, <1>2, <1>4, <2>7, <2>8, <2>10, <2>11 DEF Directory
<1>. QED
  BY <1>3, <1>4

\* It parses like the other.
LEMMA AlikeParses ==
  ASSUME NEW zip, Blocks(zip), NEW new, Alike(zip, new), Parse(zip).ok PROVE Parse(new).ok
<1>1. PICK d : d = Directory(zip, FindEocd(zip))
  OBVIOUS
<1>2. Directory(new, FindEocd(new)) = d /\ DirectoryIs(d)
  BY <1>1, AlikeDirectory, DirectoryFound
<1>3. Refused.ok = FALSE
  BY DEF Refused
<1>4. d.ok
  BY <1>1, <1>3 DEF Parse, ParseAt
<1>5. d.offset \in Nat /\ d.size \in Nat /\ d.count \in Nat
  BY <1>2, <1>4 DEF DirectoryIs
<1>6. PICK recs : recs = [i \in 1..d.size |-> At(zip, d.offset + i - 1)]
  OBVIOUS
<1>7. PICK news : news = [i \in 1..d.size |-> At(new, d.offset + i - 1)]
  OBVIOUS
<1>8. ParseCd(d, recs).ok
  BY <1>1, <1>4, <1>6 DEF Parse, ParseAt
<1>9. d.count <= d.size /\ \A i \in 1..d.count : Readable(recs[i])
  BY <1>3, <1>5, <1>8 DEF ParseCd
<1>10. ASSUME NEW i \in 1..d.count PROVE Readable(news[i])
  <2>1. i \in 1..d.size
    BY <1>5, <1>9
  <2>2. PICK off \in Nat : off = d.offset + i - 1
    <3>1. d.offset + i - 1 \in Nat
      BY <1>5
    <3>. QED
      BY <3>1
  <2>3. recs[i] = At(zip, off) /\ news[i] = At(new, off)
    BY <1>6, <1>7, <2>1, <2>2
  <2>4. SameCell(recs[i], news[i])
    BY <2>3 DEF Alike
  <2>5. recs[i].cell = "cdfh" /\ Widened(recs[i]) # NotWidened
    BY <1>9 DEF Readable
  <2>6. news[i].cell = "cdfh" /\ SameRecord(recs[i], news[i])
    BY <2>4, <2>5 DEF SameCell
  <2>7. Widened(news[i]) = Widened(recs[i])
    BY <2>6 DEF Widened, SameRecord
  <2>. QED
    BY <2>5, <2>6, <2>7 DEF Readable
<1>11. PICK es : es = [i \in 1..d.count |-> EntryOf(news[i], Widened(news[i]))]
  OBVIOUS
<1>12. PICK ar : ar = [ok |-> TRUE, dir |-> d, entries |-> es]
  OBVIOUS
<1>13. ParseCd(d, news) = ar
  BY <1>5, <1>9, <1>10, <1>11, <1>12 DEF ParseCd
<1>14. ar.ok
  BY <1>12
<1>. QED
  BY <1>2, <1>4, <1>7, <1>13, <1>14 DEF Parse, ParseAt

-----------------------------------------------------------------------------
(* Types. *)

DiskTyped == disk.ino \in Nat /\ disk.mtime \in Nat /\ Blocks(disk.zip) /\ ImageOk(sidecar)

\* A file that takes the place of another has a larger inode number here.
InodesGrow == Mounted => mount.snapshot.ino \in Nat /\ mount.snapshot.ino <= disk.ino

\* A read that goes on has found a record of the index.
RecordFound == call.step \in {"look", "fill"} => call.at \in 1..Len(mount.image.recs)

TypedInv ==
  /\ DiskTyped /\ MountTyped /\ DiffTyped /\ InodesGrow /\ RecordFound
  /\ mount.phase \in {"closed", "open", "committed"}
  /\ call.step \in {"idle", "look", "fill", "done"} /\ changes \in 0..MaxChanges

\* The cells of a file.
LEMMA CellsAre == ASSUME NEW zip PROVE CellsOk(zip) <=> Blocks(zip)
BY AnySeqIs DEF CellsOk, Blocks

\* An entry without changes has no page.
LEMMA NothingTyped == NoDiff.size \in Nat /\ DOMAIN NoDiff.pages = {}
<1>1. PICK o : o = <<>>
  OBVIOUS
<1>2. DOMAIN o = {}
  BY <1>1
<1>. QED
  BY <1>1, <1>2 DEF NoDiff

\* A diff layer without changes.
LEMMA FreshTyped == ASSUME diff' = NothingDirty PROVE DiffTyped'
BY NothingTyped DEF DiffTyped, NothingDirty

\* The initial states.
LEMMA InitTyped == Init => TypedInv
<1>. SUFFICES ASSUME Init PROVE TypedInv
  OBVIOUS
<1>1. PICK s \in Starts : /\ disk = [ino |-> 1, mtime |-> 1, zip |-> s.zip]
                          /\ sidecar = s.sidecar /\ changes = MaxChanges - s.changes
  BY DEF Init
<1>2. CellsOk(s.zip) /\ ImageOk(s.sidecar) /\ s.changes \in 0..MaxChanges
  BY FilesAssumption
<1>3. Blocks(s.zip)
  BY <1>2, CellsAre
<1>4. disk.ino = 1 /\ disk.mtime = 1 /\ disk.zip = s.zip
  BY <1>1
<1>5. DiskTyped
  BY <1>1, <1>2, <1>3, <1>4 DEF DiskTyped
<1>6. MaxChanges \in Nat
  BY MountAssumption
<1>7. changes \in 0..MaxChanges
  BY <1>1, <1>2, <1>6
<1>8. mount.phase = "closed" /\ call.step = "idle" /\ ~Mounted
  BY DEF Init, Closed, Idle, Mounted
<1>9. DiffTyped
  BY NothingTyped DEF Init, DiffTyped, NothingDirty
<1>. QED
  BY <1>5, <1>7, <1>8, <1>9 DEF TypedInv, MountTyped, InodesGrow, RecordFound

\* An index that is opened is there.
LEMMA ResolvedExistsIs ==
  ASSUME NEW zip, NEW image, ResolveIndex(image, zip) # NoImage
  PROVE  ResolveIndex(image, zip).exists
<1>1. CASE Usable(image, zip)
  BY <1>1 DEF ResolveIndex, Usable
<1>2. CASE ~Usable(image, zip)
  <2>1. Eager(zip) # NoImage /\ ResolveIndex(image, zip) = Eager(zip)
    BY <1>2 DEF ResolveIndex
  <2>2. \E recs, cps : Eager(zip) = Serialize(zip, recs, cps)
    BY <2>1 DEF Eager
  <2>3. PICK recs, cps : Eager(zip) = Serialize(zip, recs, cps)
    BY <2>2
  <2>4. Serialize(zip, recs, cps).exists = TRUE
    BY DEF Serialize
  <2>. QED
    BY <2>1, <2>3, <2>4
<1>. QED
  BY <1>1, <1>2

\* An open maps a file of cells and an index of records.
LEMMA OpenTyped == TypedInv /\ MapInv /\ Open => TypedInv'
<1>. SUFFICES ASSUME TypedInv, MapInv, Open PROVE TypedInv'
  OBVIOUS
<1>1. PICK image : image = ResolveIndex(sidecar, disk.zip)
  OBVIOUS
<1>2. /\ image # NoImage /\ sidecar' = image /\ disk' = disk /\ Parse(disk.zip).ok
      /\ mount' = [phase |-> "open", snapshot |-> disk, archive |-> disk.zip,
                   image |-> image, tick |-> 0, stale |-> FALSE, raced |-> FALSE]
      /\ UNCHANGED <<diff, call, changes>> /\ ~Mounted
  BY <1>1 DEF Open, OpenOver
<1>3. Blocks(disk.zip) /\ ImageOk(sidecar)
  BY DEF TypedInv, DiskTyped
<1>4. ImageOk(image)
  BY <1>1, <1>2, <1>3, ResolveIndexIs
<1>5. image.exists
  BY <1>1, <1>2, ResolvedExistsIs
<1>6. /\ mount'.phase = "open" /\ mount'.snapshot = disk /\ mount'.archive = disk.zip
      /\ mount'.image = image
  BY <1>2
<1>7. MountTyped'
  BY <1>2, <1>3, <1>4, <1>5, <1>6 DEF MountTyped, ImageIs
<1>8. DiskTyped' /\ InodesGrow'
  BY <1>2, <1>4, <1>6 DEF TypedInv, DiskTyped, InodesGrow
<1>9. DiffTyped'
  BY <1>2 DEF TypedInv, DiffTyped
<1>10. call'.step \notin {"look", "fill"} /\ call' = call
  BY <1>2 DEF MapInv, ReadsOpen
<1>. QED
  BY <1>2, <1>6, <1>7, <1>8, <1>9, <1>10 DEF TypedInv, RecordFound

\* The end of a mount.
LEMMA EndTyped ==
  ASSUME TypedInv, End, ~Mounted', mount'.phase \in {"closed", "open", "committed"},
         DiskTyped', changes' \in 0..MaxChanges
  PROVE  TypedInv'
<1>1. DiffTyped' /\ call'.step = "idle"
  BY FreshTyped DEF End, Idle
<1>. QED
  BY <1>1 DEF TypedInv, MountTyped, InodesGrow, RecordFound

\* A close keeps the file.
LEMMA CloseTyped == TypedInv /\ Close => TypedInv'
<1>. SUFFICES ASSUME TypedInv, Close PROVE TypedInv'
  OBVIOUS
<1>1. End /\ mount' = Closed /\ UNCHANGED <<disk, sidecar, changes>>
  BY DEF Close, store
<1>2. mount'.phase = "closed" /\ ~Mounted'
  BY <1>1 DEF Closed, Mounted
<1>3. DiskTyped' /\ changes' \in 0..MaxChanges
  BY <1>1 DEF TypedInv, DiskTyped
<1>. QED
  BY <1>1, <1>2, <1>3, EndTyped

\* A commit leaves a file of cells.
LEMMA CommitTyped ==
  ASSUME TypedInv, OwnInv, NEW how, NEW mode \in Modes, NEW order \in Orders,
         Commit(how, mode, order)
  PROVE  TypedInv'
<1>1. PICK built : built = Built(mode, order)
  OBVIOUS
<1>2. CommitReady /\ Blocks(disk.zip)
  BY DEF CommitReady, TypedInv, DiskTyped, Commit
<1>3. built.ok => Blocks(built.cells)
  BY <1>1, <1>2, BuiltIs
<1>4. /\ disk' = IF ~built.ok THEN disk
                 ELSE [ino |-> IF mode = "full" THEN disk.ino + 1 ELSE disk.ino,
                       mtime |-> disk.mtime + 1, zip |-> built.cells]
      /\ mount' = IF built.ok /\ Untouched
                  THEN [phase |-> "committed", how |-> how, mode |-> mode, before |-> mount.archive]
                  ELSE Closed
      /\ End /\ sidecar' = sidecar /\ changes < MaxChanges /\ changes' = changes + 1
  BY <1>1 DEF Commit, Install
<1>5. mount'.phase \in {"closed", "committed"} /\ ~Mounted'
  BY <1>4 DEF Closed, Mounted
<1>6. DiskTyped'
  <2>1. CASE ~built.ok
    BY <1>4, <2>1 DEF TypedInv, DiskTyped
  <2>2. CASE built.ok
    <3>1. /\ disk'.ino = IF mode = "full" THEN disk.ino + 1 ELSE disk.ino
          /\ disk'.mtime = disk.mtime + 1 /\ disk'.zip = built.cells
      BY <1>4, <2>2
    <3>. QED
      BY <1>3, <1>4, <2>2, <3>1 DEF TypedInv, DiskTyped
  <2>. QED
    BY <2>1, <2>2
<1>7. changes' \in 0..MaxChanges
  BY <1>4, MountAssumption DEF TypedInv
<1>. QED
  BY <1>4, <1>5, <1>6, <1>7, EndTyped

\* So does every kind of commit.
LEMMA CommitsTyped ==
  TypedInv /\ OwnInv /\ (CommitChanges \/ Compact) => TypedInv'
<1>. SUFFICES ASSUME TypedInv, OwnInv, CommitChanges \/ Compact PROVE TypedInv'
  OBVIOUS
<1>1. CASE CommitChanges
  <2>1. PICK how \in {"full", "incremental", "commit"}, o \in Orders : Commit(how, ModeOf(how), o)
    BY <1>1 DEF CommitChanges
  <2>2. PICK mode \in Modes : mode = ModeOf(how)
    <3>1. ModeOf(how) \in Modes
      BY <2>1 DEF ModeOf, Modes
    <3>. QED
      BY <3>1
  <2>. QED
    BY <2>1, <2>2, CommitTyped
<1>2. CASE Compact
  <2>1. PICK o \in Orders : Commit("compact", "full", o)
    BY <1>2 DEF Compact
  <2>2. "full" \in Modes
    BY DEF Modes
  <2>. QED
    BY <2>1, <2>2, CommitTyped
<1>. QED
  BY <1>1, <1>2

-----------------------------------------------------------------------------
(* Reads and edits. *)

\* What is resolved has a size, and what is read through the cache a record.
LEMMA ResolveIs ==
  ASSUME Mounted, MountTyped, OwnInv, NEW n \in Names, Resolve(n).err = "none"
  PROVE  /\ Resolve(n).size \in Nat
         /\ Resolve(n).source = n /\ ~diff[n].dirty =>
              Lookup(mount.image, n).at \in 1..Len(mount.image.recs)
<1>1. PICK src : src = SourceOf(n)
  OBVIOUS
<1>2. PICK found : found = Lookup(mount.image, src)
  OBVIOUS
<1>3. PICK recs : recs = mount.image.recs
  OBVIOUS
<1>4. IsSeq(recs) /\ \A i \in 1..Len(recs) : recs[i].uncomp \in Nat
  BY <1>3, AnySeqIs DEF MountTyped, ImageIs, ImageOk, RecordOk
<1>5. FoundIs(found, Len(recs))
  BY <1>2, <1>3, <1>4, LookupIs
<1>6. PICK r : r = ResolvedAt(n, src, found)
  OBVIOUS
<1>7. Resolve(n) = r /\ r.err = "none"
  BY <1>1, <1>2, <1>6 DEF Resolve
<1>8. \A err : Failed(err).err = err
  BY DEF Failed, Resolved
<1>9. found.err = "none"
  BY <1>6, <1>7, <1>8 DEF ResolvedAt
<1>10. CASE Kind(n, found) = "created"
  <2>1. r = Resolved("none", NoSource, 0)
    BY <1>6, <1>9, <1>10 DEF ResolvedAt
  <2>2. r.size = 0
    BY <2>1 DEF Resolved
  <2>3. overlay[n].kind = "created"
    BY <1>10 DEF Kind
  <2>4. diff[n].dirty
    BY <2>3 DEF OwnInv, DiffOwned
  <2>. QED
    BY <1>7, <2>2, <2>4
<1>11. CASE Kind(n, found) # "created"
  <2>1. found # NotThere
    BY <1>6, <1>7, <1>8, <1>9, <1>11 DEF ResolvedAt
  <2>2. PICK at \in 1..Len(recs) : at = found.at
    BY <1>5, <1>9, <2>1 DEF FoundIs
  <2>3. r = ResolvedRecord(src, recs[at])
    BY <1>3, <1>6, <1>7, <1>8, <1>9, <1>11, <2>1, <2>2 DEF ResolvedAt
  <2>4. r = Resolved("none", src, recs[at].uncomp)
    BY <1>7, <1>8, <2>3 DEF ResolvedRecord
  <2>5. r.source = src /\ r.size = recs[at].uncomp
    BY <2>4 DEF Resolved
  <2>. QED
    BY <1>2, <1>3, <1>4, <1>7, <2>2, <2>5
<1>. QED
  BY <1>10, <1>11

\* A step that leaves the files, the mount and what was written.
LEMMA CallTyped ==
  ASSUME TypedInv, UNCHANGED <<disk, sidecar, mount, diff>>, changes' \in 0..MaxChanges,
         call'.step \in {"idle", "look", "fill", "done"}, RecordFound'
  PROVE  TypedInv'
BY DEF TypedInv, DiskTyped, MountTyped, DiffTyped, InodesGrow, Mounted

\* A read starts.
LEMMA BeginTyped ==
  ASSUME TypedInv, OwnInv, NEW n \in Names, NEW off, NEW len, BeginRead(n, off, len)
  PROVE  TypedInv'
<1>1. Mounted /\ UNCHANGED <<disk, sidecar, mount, diff, changes>>
  BY DEF BeginRead, store
<1>2. \A result : Done(n, off, len, result).step = "done"
  BY DEF Done
<1>3. PICK r : r = Resolve(n)
  OBVIOUS
<1>4. \/ call'.step = "done"
      \/ /\ r.err = "none" /\ ~Overlaid(n, r)
         /\ call' = CachedRead(n, off, len, Lookup(mount.image, n).at)
  BY <1>2, <1>3 DEF BeginRead, ReadAs
<1>5. CASE call'.step = "done"
  <2>1. RecordFound'
    BY <1>5 DEF RecordFound
  <2>. QED
    BY <1>1, <1>5, <2>1, CallTyped DEF TypedInv
<1>6. CASE /\ r.err = "none" /\ ~Overlaid(n, r)
           /\ call' = CachedRead(n, off, len, Lookup(mount.image, n).at)
  <2>1. PICK at \in 1..Len(mount.image.recs) : at = Lookup(mount.image, n).at
    <3>1. MountTyped
      BY DEF TypedInv
    <3>2. Resolve(n).err = "none" /\ Resolve(n).source = n /\ ~diff[n].dirty
      BY <1>3, <1>6 DEF Overlaid
    <3>3. Lookup(mount.image, n).at \in 1..Len(mount.image.recs)
      BY <1>1, <3>1, <3>2, ResolveIs
    <3>. QED
      BY <3>3
  <2>2. \/ call'.step = "done"
        \/ call' = [step |-> "look", n |-> n, off |-> off, len |-> len, at |-> at, out |-> <<>>]
    BY <1>2, <1>6, <2>1 DEF CachedRead
  <2>3. call'.step = "done" \/ (call'.step = "look" /\ call'.at = at)
    <3>1. PICK e : e = <<>>
      OBVIOUS
    <3>. QED
      BY <2>2, <3>1
  <2>4. RecordFound'
    BY <1>1, <2>1, <2>3 DEF RecordFound
  <2>. QED
    BY <1>1, <2>3, <2>4, CallTyped DEF TypedInv
<1>. QED
  BY <1>4, <1>5, <1>6

\* A page is read.
LEMMA TakenTyped ==
  ASSUME TypedInv, ReadInv, call.step \in {"look", "fill"}, NEW data, call' = Taken(data),
         UNCHANGED <<disk, sidecar, mount, diff, changes>>
  PROVE  TypedInv'
<1>1. PICK b : b = Slice(data, Pos - PageStart(Page), call.off + call.len - Pos)
  OBVIOUS
<1>2. PICK o : o = call.out \o b
  OBVIOUS
<1>3. call' = IF Len(o) = call.len THEN Done(call.n, call.off, call.len, Ok(o))
              ELSE [call EXCEPT !.step = "look", !.out = o]
  BY <1>1, <1>2 DEF Taken, TakenTo
<1>4. call'.step = "done" \/ (call'.step = "look" /\ call'.at = call.at)
  <2>1. CASE Len(o) = call.len
    BY <1>3, <2>1 DEF Done
  <2>2. CASE Len(o) # call.len
    <3>1. call' = [step |-> "look", n |-> call.n, off |-> call.off, len |-> call.len,
                   at |-> call.at, out |-> o]
      BY <1>3, <2>2 DEF ReadInv, ReadRecorded
    <3>. QED
      BY <3>1
  <2>. QED
    BY <2>1, <2>2
<1>5. RecordFound'
  BY <1>4 DEF TypedInv, RecordFound
<1>. QED
  BY <1>4, <1>5, CallTyped DEF TypedInv

\* A page that is there.
LEMMA HitTyped == TypedInv /\ ReadInv /\ Hit => TypedInv'
<1>. SUFFICES ASSUME TypedInv, ReadInv, Hit PROVE TypedInv'
  OBVIOUS
<1>1. call.step = "look" /\ UNCHANGED <<disk, sidecar, mount, diff, changes>>
  BY DEF Hit, store
<1>2. PICK data : data = cache.nodes[cache.map[Key(Page)]].data
  OBVIOUS
<1>3. call' = Taken(data)
  BY <1>2 DEF Hit
<1>. QED
  BY <1>1, <1>3, TakenTyped

\* A page that was read, or not.
LEMMA FillTyped == TypedInv /\ ReadInv /\ Fill => TypedInv'
<1>. SUFFICES ASSUME TypedInv, ReadInv, Fill PROVE TypedInv'
  OBVIOUS
<1>1. call.step = "fill" /\ UNCHANGED <<disk, sidecar, mount, diff, changes>>
  BY DEF Fill, store
<1>2. PICK run, last : FillWith(run, last)
  BY DEF Fill
<1>3. CASE run.err = "none"
  <2>1. PICK data : data = RunPages(run.bytes, last)[1].data
    OBVIOUS
  <2>2. call' = Taken(data)
    BY <1>2, <1>3, <2>1 DEF FillWith, Filled
  <2>. QED
    BY <1>1, <2>2, TakenTyped
<1>4. CASE run.err # "none"
  <2>1. call'.step = "done"
    BY <1>2, <1>4 DEF FillWith, Done
  <2>2. RecordFound'
    BY <2>1 DEF RecordFound
  <2>. QED
    BY <1>1, <2>1, <2>2, CallTyped DEF TypedInv
<1>. QED
  BY <1>3, <1>4

\* A step that leaves of the mount what is typed.
LEMMA KeptTyped ==
  ASSUME TypedInv, Mounted, mount'.phase = mount.phase, mount'.snapshot = mount.snapshot,
         mount'.archive = mount.archive, mount'.image = mount.image,
         UNCHANGED <<disk, sidecar, diff, changes>>,
         call'.step \in {"idle", "look", "fill", "done"}, RecordFound'
  PROVE  TypedInv'
BY DEF TypedInv, DiskTyped, MountTyped, DiffTyped, InodesGrow, Mounted

\* A missing page.
LEMMA MissTyped == TypedInv /\ MapInv /\ ReadInv /\ Miss => TypedInv'
<1>. SUFFICES ASSUME TypedInv, MapInv, ReadInv, Miss PROVE TypedInv'
  OBVIOUS
<1>1. /\ call.step = "look" /\ UNCHANGED <<disk, sidecar, diff, changes>>
      /\ \E t, b : mount' = [mount EXCEPT !.tick = t, !.stale = b]
  BY DEF Miss, store
<1>2. Mounted /\ MountRecord(mount)
  BY <1>1 DEF MapInv, ReadsOpen, Shaped
<1>3. /\ mount'.phase = mount.phase /\ mount'.snapshot = mount.snapshot
      /\ mount'.archive = mount.archive /\ mount'.image = mount.image
  BY <1>1, <1>2 DEF MountRecord
<1>4. \/ call' = Done(call.n, call.off, call.len, Err("stale"))
      \/ call' = [call EXCEPT !.step = "fill"]
  BY DEF Miss
<1>5. call'.step = "done" \/ (call'.step = "fill" /\ call'.at = call.at)
  <2>1. CASE call' = Done(call.n, call.off, call.len, Err("stale"))
    BY <2>1 DEF Done
  <2>2. CASE call' = [call EXCEPT !.step = "fill"]
    <3>1. call' = [step |-> "fill", n |-> call.n, off |-> call.off, len |-> call.len,
                   at |-> call.at, out |-> call.out]
      BY <1>1, <2>2 DEF ReadInv, ReadRecorded
    <3>. QED
      BY <3>1
  <2>. QED
    BY <1>4, <2>1, <2>2
<1>6. RecordFound'
  BY <1>1, <1>3, <1>5 DEF TypedInv, RecordFound
<1>. QED
  BY <1>1, <1>2, <1>3, <1>5, <1>6, KeptTyped
\* The overlay and the diff layer of an edit.
WrittenOk(d) == d.size \in Nat /\ \A p \in DOMAIN d.pages : PageFull(d.pages[p])

\* An edit keeps the files and the mount.
LEMMA EditTyped == ASSUME TypedInv, Edit, DiffTyped' PROVE TypedInv'
<1>1. /\ UNCHANGED <<disk, sidecar, mount>> /\ call'.step = "idle"
      /\ changes < MaxChanges /\ changes' = changes + 1
  BY DEF Edit, store, Idle
<1>2. changes' \in 0..MaxChanges
  BY <1>1, MountAssumption DEF TypedInv
<1>. QED
  BY <1>1, <1>2
     DEF TypedInv, DiskTyped, MountTyped, InodesGrow, Mounted, RecordFound

\* A created entry has no page, a removed one nothing.
LEMMA CreateTyped ==
  ASSUME TypedInv, OwnInv, NEW n \in Names, EntryCreate(n) \/ EntryRemove(n) PROVE TypedInv'
<1>1. Edit
  BY DEF EntryCreate, EntryRemove
<1>2. PICK e : e = [NoDiff EXCEPT !.dirty = TRUE]
  OBVIOUS
<1>3. e.size = NoDiff.size /\ e.pages = NoDiff.pages
  BY <1>2 DEF NoDiff
<1>4. WrittenOk(e) /\ WrittenOk(NoDiff)
  BY <1>3, NothingTyped DEF WrittenOk
<1>5. PICK d : diff' = [diff EXCEPT ![n] = d] /\ WrittenOk(d)
  BY <1>2, <1>4 DEF EntryCreate, EntryRemove
<1>6. DOMAIN diff = Names
  BY DEF OwnInv
<1>7. \A m \in Names : diff'[m] = IF m = n THEN d ELSE diff[m]
  BY <1>5, <1>6
<1>8. DiffTyped'
  BY <1>5, <1>7 DEF TypedInv, DiffTyped, WrittenOk
<1>. QED
  BY <1>1, <1>8, EditTyped

\* A renamed entry takes its pages along.
LEMMA RenameTyped ==
  ASSUME TypedInv, OwnInv, NEW old \in Names, NEW new \in Names, EntryRename(old, new)
  PROVE  TypedInv'
<1>1. Edit
  BY DEF EntryRename
<1>2. diff' = IF diff[old].dirty THEN [diff EXCEPT ![new] = diff[old], ![old] = NoDiff] ELSE diff
  BY DEF EntryRename
<1>3. DOMAIN diff = Names
  BY DEF OwnInv
<1>4. \A m \in Names : diff'[m] = diff[m] \/ diff'[m] = diff[old] \/ diff'[m] = NoDiff
  BY <1>2, <1>3
<1>5. \A m \in Names : WrittenOk(diff[m])
  BY DEF TypedInv, DiffTyped, WrittenOk
<1>6. WrittenOk(NoDiff)
  BY NothingTyped DEF WrittenOk
<1>7. \A m \in Names : WrittenOk(diff'[m])
  BY <1>4, <1>5, <1>6
<1>8. DiffTyped'
  BY <1>7 DEF DiffTyped, WrittenOk
<1>. QED
  BY <1>1, <1>8, EditTyped

\* A page with one byte changed.
LEMMA PageMarked ==
  ASSUME NEW page, PageFull(page), NEW k, NEW x PROVE PageFull([page EXCEPT ![k] = x])
<1>1. PICK P \in Nat : P = PageSize
  BY CacheAssumption
<1>2. Len(page) = P /\ page = [i \in 1..P |-> page[i]]
  BY <1>1 DEF PageFull, IsSeq
<1>3. PICK z : z = [page EXCEPT ![k] = x]
  OBVIOUS
<1>4. z = [i \in 1..P |-> z[i]]
  BY <1>2, <1>3
<1>5. Len(z) = P
  BY <1>4
<1>. QED
  BY <1>1, <1>3, <1>4, <1>5 DEF PageFull, IsSeq

\* A write puts its byte into a whole page.
LEMMA WriteTyped ==
  ASSUME TypedInv, OwnInv, NEW n \in Names, NEW i \in Nat, WriteInto(n, i) PROVE TypedInv'
<1>1. Edit /\ Mounted /\ WriteResolved(n, i, Resolve(n))
  BY DEF WriteInto, Edit
<1>2. PICK r : r = Resolve(n)
  OBVIOUS
<1>3. r.err = "none" /\ r.size \in Nat
  <2>1. MountTyped /\ Resolve(n).err = "none"
    BY <1>1 DEF TypedInv, WriteResolved
  <2>. QED
    BY <1>1, <1>2, <2>1, ResolveIs
<1>4. PICK e : e = EnsuredEntry(n, r.size)
  OBVIOUS
<1>5. PICK p \in Nat : p = i \div PageSize
  BY PageHolds
<1>6. PICK from \in Nat, to \in Nat :
        from = PageStart(p) /\ to = PageStart(p + 1) /\ to = from + PageSize /\ from < to
  <2>1. /\ PageSize \in Nat \ {0} /\ PageStart(p) \in Nat
        /\ PageStart(p + 1) = PageStart(p) + PageSize
    BY NextPage
  <2>2. PageStart(p + 1) \in Nat /\ PageStart(p) < PageStart(p + 1)
    BY <2>1
  <2>. QED
    BY <2>1, <2>2
<1>7. PICK part : part = PagePart(n, r.source, r.size, from, to)
  OBVIOUS
<1>8. RangeOf(part, PageSize)
  <2>1. MountTyped /\ DiffTyped
    BY DEF TypedInv
  <2>4. /\ PageStart(p) <= from /\ from < PageStart(p + 1) /\ from <= to
        /\ to <= PageStart(p + 1)
    BY <1>6
  <2>5. PICK source : source = r.source
    OBVIOUS
  <2>6. PICK size \in Nat : size = r.size
    BY <1>3
  <2>7. RangeOf(PagePart(n, source, size, from, to), to - from)
    BY <1>1, <2>1, <2>4, PagePartIs
  <2>2. RangeOf(PagePart(n, r.source, r.size, from, to), to - from)
    BY <2>5, <2>6, <2>7
  <2>3. to - from = PageSize
    BY <1>6, CacheAssumption
  <2>. QED
    BY <1>7, <2>2, <2>3
<1>9. WriteByte(n, i, e, part)
  BY <1>1, <1>2, <1>4, <1>5, <1>6, <1>7 DEF WriteResolved
<1>10. WrittenOk(e)
  <2>1. PICK o : o = <<>>
    OBVIOUS
  <2>2. CASE diff[n].dirty
    BY <1>4, <2>2 DEF EnsuredEntry, TypedInv, DiffTyped, WrittenOk
  <2>3. CASE ~diff[n].dirty
    <3>1. e = [dirty |-> TRUE, size |-> r.size, pages |-> o]
      BY <1>4, <2>1, <2>3 DEF EnsuredEntry
    <3>2. e.size = r.size /\ DOMAIN e.pages = {}
      BY <2>1, <3>1
    <3>. QED
      BY <1>3, <3>2 DEF WrittenOk
  <2>. QED
    BY <2>2, <2>3
<1>11. ASSUME part.err = "none" PROVE WrittenOk(WrittenEntry(e, i, part.bytes))
  <2>1. PICK page : page = [part.bytes EXCEPT ![(i % PageSize) + 1] = Mark]
    OBVIOUS
  <2>2. PageFull(part.bytes)
    BY <1>8, <1>11 DEF RangeOf, PageFull
  <2>3. PageFull(page)
    BY <2>1, <2>2, PageMarked
  <2>4. PICK pages : pages = [q \in DOMAIN e.pages \cup {p} |-> IF q = p THEN page ELSE e.pages[q]]
    OBVIOUS
  <2>5. \A q \in DOMAIN pages : PageFull(pages[q])
    BY <1>10, <2>3, <2>4 DEF WrittenOk
  <2>6. PICK size \in Nat : size = Greater(e.size, i + 1)
    <3>1. Greater(e.size, i + 1) \in Nat
      BY <1>10 DEF Greater, WrittenOk
    <3>. QED
      BY <3>1
  <2>7. PICK w : w = WrittenEntry(e, i, part.bytes)
    OBVIOUS
  <2>8. w = [dirty |-> TRUE, size |-> size, pages |-> pages]
    BY <1>5, <2>1, <2>4, <2>6, <2>7 DEF WrittenEntry
  <2>9. w.size = size /\ w.pages = pages
    BY <2>8
  <2>. QED
    BY <2>5, <2>7, <2>9 DEF WrittenOk
<1>12. PICK d : diff' = [diff EXCEPT ![n] = d] /\ WrittenOk(d)
  BY <1>9, <1>10, <1>11 DEF WriteByte
<1>13. DOMAIN diff = Names
  BY DEF OwnInv
<1>14. \A m \in Names : diff'[m] = IF m = n THEN d ELSE diff[m]
  BY <1>12, <1>13
<1>15. DiffTyped'
  BY <1>12, <1>14 DEF TypedInv, DiffTyped, WrittenOk
<1>. QED
  BY <1>1, <1>15, EditTyped

-----------------------------------------------------------------------------
(* Another process. *)

\* The file changes under the map, or another takes its place.
LEMMA FileTyped ==
  ASSUME TypedInv, MapInv, NEW d, FileChanges(d), d.ino \in Nat, disk.ino <= d.ino,
         d.mtime \in Nat, Blocks(d.zip),
         d.ino = disk.ino => (Parse(disk.zip).ok => Parse(d.zip).ok)
  PROVE  TypedInv'
<1>1. /\ disk' = d /\ UNCHANGED <<sidecar, diff, call>>
      /\ changes < MaxChanges /\ changes' = changes + 1
  BY DEF FileChanges
<1>2. changes' \in 0..MaxChanges
  BY <1>1, MountAssumption DEF TypedInv
<1>3. DiskTyped' /\ DiffTyped'
  BY <1>1 DEF TypedInv, DiskTyped, DiffTyped
<1>4. CASE ~Mounted
  <2>1. mount'.phase = "closed" /\ ~Mounted'
    BY <1>4 DEF FileChanges, Closed, Mounted
  <2>2. call'.step \notin {"look", "fill"}
    BY <1>1, <1>4 DEF MapInv, ReadsOpen
  <2>. QED
    BY <1>1, <1>2, <1>3, <2>1, <2>2 DEF TypedInv, MountTyped, InodesGrow, RecordFound
<1>5. CASE Mounted /\ d.ino # mount.snapshot.ino
  <2>1. mount' = mount
    BY <1>5 DEF FileChanges
  <2>2. disk.ino \in Nat /\ mount.snapshot.ino \in Nat /\ mount.snapshot.ino <= disk.ino
    BY <1>5 DEF TypedInv, DiskTyped, InodesGrow
  <2>3. InodesGrow'
    BY <1>1, <2>1, <2>2 DEF InodesGrow
  <2>. QED
    BY <1>1, <1>2, <1>3, <2>1, <2>3 DEF TypedInv, MountTyped, RecordFound, Mounted
<1>6. CASE Mounted /\ d.ino = mount.snapshot.ino
  <2>1. MountRecord(mount)
    BY <1>6 DEF MapInv, Shaped
  <2>2. \E b : mount' = [mount EXCEPT !.archive = d.zip, !.raced = b]
    BY <1>6 DEF FileChanges
  <2>3. /\ mount'.phase = mount.phase /\ mount'.snapshot = mount.snapshot
        /\ mount'.archive = d.zip /\ mount'.image = mount.image
    BY <2>1, <2>2 DEF MountRecord
  <2>4. disk.ino \in Nat /\ mount.snapshot.ino \in Nat /\ mount.snapshot.ino <= disk.ino
    BY <1>6 DEF TypedInv, DiskTyped, InodesGrow
  <2>5. disk.ino = d.ino
    BY <1>6, <2>4
  <2>6. mount.archive = disk.zip
    BY <1>6, <2>5 DEF MapInv, MapIsFile
  <2>7. Parse(mount.archive).ok /\ ImageIs(mount.image)
    BY <1>6 DEF TypedInv, MountTyped
  <2>8. MountTyped'
    BY <2>3, <2>5, <2>6, <2>7 DEF MountTyped
  <2>9. InodesGrow'
    BY <1>1, <1>6, <2>3, <2>4, <2>5 DEF InodesGrow
  <2>10. RecordFound'
    BY <1>1, <2>3 DEF TypedInv, RecordFound
  <2>. QED
    BY <1>1, <1>2, <1>3, <2>3, <2>8, <2>9, <2>10 DEF TypedInv
<1>. QED
  BY <1>4, <1>5, <1>6

\* Both changes by another process.
LEMMA FilesTyped ==
  TypedInv /\ MapInv /\ (WrittenInPlace \/ Replaced) => TypedInv'
<1>. SUFFICES ASSUME TypedInv, MapInv, WrittenInPlace \/ Replaced PROVE TypedInv'
  OBVIOUS
<1>1. PICK ino \in Nat, mtime \in Nat : ino = disk.ino /\ mtime = disk.mtime + 1
  BY DEF TypedInv, DiskTyped
<1>2. Blocks(disk.zip)
  BY DEF TypedInv, DiskTyped
<1>3. CASE WrittenInPlace
  <2>1. PICK z : z = Scribbled(disk.zip)
    OBVIOUS
  <2>2. Alike(disk.zip, z) /\ Blocks(z)
    BY <1>2, <2>1, ScribbledAlike DEF Alike
  <2>3. Parse(disk.zip).ok => Parse(z).ok
    BY <1>2, <2>2, AlikeParses
  <2>4. PICK d : d = [ino |-> ino, mtime |-> mtime, zip |-> z]
    OBVIOUS
  <2>5. d.ino = ino /\ d.mtime = mtime /\ d.zip = z
    BY <2>4
  <2>6. FileChanges(d)
    BY <1>1, <1>3, <2>1, <2>4 DEF WrittenInPlace
  <2>. QED
    BY <1>1, <2>2, <2>3, <2>5, <2>6, FileTyped
<1>4. CASE Replaced
  <2>1. PICK z \in Others :
          FileChanges([ino |-> disk.ino + 1, mtime |-> disk.mtime + 1, zip |-> z])
    BY <1>4 DEF Replaced
  <2>2. Blocks(z)
    BY FilesAssumption, CellsAre
  <2>3. PICK d : d = [ino |-> ino + 1, mtime |-> mtime, zip |-> z]
    OBVIOUS
  <2>4. d.ino = ino + 1 /\ d.mtime = mtime /\ d.zip = z
    BY <2>3
  <2>5. FileChanges(d)
    BY <1>1, <2>1, <2>3
  <2>6. d.ino \in Nat /\ disk.ino <= d.ino /\ d.ino # disk.ino
    BY <1>1, <2>4
  <2>. QED
    BY <2>2, <2>4, <2>5, <2>6, FileTyped
<1>. QED
  BY <1>3, <1>4

-----------------------------------------------------------------------------
(* Every step. *)

\* Every step keeps the types.
LEMMA NextTyped == MapInv /\ OwnInv /\ LruInv /\ TypedInv /\ [Next]_vars => TypedInv'
<1>. SUFFICES ASSUME MapInv, OwnInv, LruInv, TypedInv, [Next]_vars PROVE TypedInv'
  OBVIOUS
<1>0. ReadInv
  BY DEF LruInv
<1>1. CASE UNCHANGED vars \/ OpenRefused
  <2>1. UNCHANGED <<disk, sidecar, mount, diff, call, changes>>
    BY <1>1 DEF vars, store, OpenRefused
  <2>2. RecordFound'
    BY <2>1 DEF TypedInv, RecordFound
  <2>. QED
    BY <2>1, <2>2, CallTyped DEF TypedInv
<1>2. CASE Open \/ Close
  BY <1>2, OpenTyped, CloseTyped
<1>3. CASE Hit \/ Miss \/ Fill
  BY <1>0, <1>3, HitTyped, MissTyped, FillTyped
<1>4. CASE CommitChanges \/ Compact
  BY <1>4, CommitsTyped
<1>5. CASE WrittenInPlace \/ Replaced
  BY <1>5, FilesTyped
<1>6. CASE \E n \in Names : EntryCreate(n) \/ EntryRemove(n)
  BY <1>6, CreateTyped
<1>7. CASE \E n \in Names, i \in Writes : WriteInto(n, i)
  <2>1. PICK n \in Names, i \in Writes : WriteInto(n, i)
    BY <1>7
  <2>2. i \in Nat
    BY MountAssumption
  <2>. QED
    BY <2>1, <2>2, WriteTyped
<1>8. CASE \E old, new \in Names : EntryRename(old, new)
  BY <1>8, RenameTyped
<1>9. CASE \E n \in Names, r \in Ranges : BeginRead(n, r[1], r[2])
  BY <1>9, BeginTyped
<1>. QED
  BY <1>1, <1>2, <1>3, <1>4, <1>5, <1>6, <1>7, <1>8, <1>9 DEF Next

\* A read that goes on has a record with a size.
LEMMA TypedSized == MapInv /\ TypedInv => RecordSized
<1>. SUFFICES ASSUME MapInv, TypedInv, call.step \in {"look", "fill"}
              PROVE  mount.image.recs[call.at].uncomp \in Nat
  BY DEF RecordSized
<1>1. Mounted
  BY DEF MapInv, ReadsOpen
<1>2. call.at \in 1..Len(mount.image.recs)
  BY DEF TypedInv, RecordFound
<1>. QED
  BY <1>1, <1>2 DEF TypedInv, MountTyped, ImageIs, ImageOk, RecordOk

\* What is typed is what the run checks.
LEMMA TypedIs == MapInv /\ OwnInv /\ TypedInv => TypeOK
<1>. SUFFICES ASSUME MapInv, OwnInv, TypedInv PROVE TypeOK
  OBVIOUS
<1>1. RecordSized
  BY TypedSized
<1>. QED
  BY <1>1 DEF TypeOK, TypedInv, DiskTyped, DiffTyped, PageFull, OwnInv

-----------------------------------------------------------------------------
(* The invariant of the archive, and what follows from it. *)

ArchiveInv == OwnInv /\ LruInv /\ TypedInv

\* The cache is empty at the start.
LEMMA InitLru == Init => LruInv
<1>. SUFFICES ASSUME Init PROVE LruInv
  OBVIOUS
<1>1. Mirrors(cache, lru, <<>>) /\ call.step = "idle"
  BY EmptyMirrors DEF Init, Idle
<1>. QED
  BY <1>1 DEF LruInv, CacheInv, ReadInv

\* In every reachable state the files, the map, the index and what was written have
\* their types, what is written belongs to an entry that is there, and the cache
\* mirrors its list.
THEOREM ArchiveInvariant == Spec => []ArchiveInv
<1>1. Init => ArchiveInv
  BY InitOwned, InitLru, InitTyped DEF ArchiveInv
<1>2. MapInv /\ ArchiveInv /\ [Next]_vars => ArchiveInv'
  <2>1. MapInv /\ ArchiveInv => RecordSized
    BY TypedSized DEF ArchiveInv
  <2>. QED
    BY <2>1, NextOwnInv, NextLruInv, NextTyped DEF ArchiveInv
<1>. QED
  BY <1>1, <1>2, MapInvariant, PTL DEF Spec

\* Whatever cells the archive and whatever records the index have, every page that is
\* written is a whole one, and what a read goes on with is a record of the index whose
\* size is a number (PagePart under write_into, Vmidx::lookup, Archive::parse).
THEOREM ArchiveTyped == Spec => []TypeOK
<1>1. MapInv /\ ArchiveInv => TypeOK
  BY TypedIs DEF ArchiveInv
<1>. QED
  BY <1>1, MapInvariant, ArchiveInvariant, PTL

\* In every reachable state the slab with its links, map and free places is the list
\* of pages in the order of their last use, cut where its bytes exceed the limit
\* (PageCache under read_cached and fill_run).
THEOREM CacheAlwaysLru == Spec => []CacheIsLru
<1>1. ArchiveInv => CacheIsLru
  <2>. SUFFICES ASSUME NEW at, Mirrors(cache, lru, at) PROVE CacheIsLru
    BY DEF ArchiveInv, LruInv, CacheInv
  <2>. QED
    BY MirrorsRepresents DEF CacheIsLru
<1>. QED
  BY <1>1, ArchiveInvariant, PTL

-----------------------------------------------------------------------------
(* What a commit leaves. *)

\* Only a commit ends a mount with the history of one.
LEMMA CommitEnds ==
  MapInv /\ [Next]_vars /\ mount.phase = "open" /\ mount'.phase = "committed"
  => CommitChanges \/ Compact
<1>. SUFFICES ASSUME MapInv, [Next]_vars, mount.phase = "open", mount'.phase = "committed"
              PROVE  CommitChanges \/ Compact
  OBVIOUS
<1>0. Mounted /\ MountRecord(mount) /\ mount'.phase # mount.phase
  BY DEF MapInv, Shaped, Mounted
<1>1. mount' # mount
  BY <1>0
<1>2. ~UNCHANGED vars /\ ~OpenRefused /\ ~Open
  BY <1>0, <1>1 DEF vars, OpenRefused, Open
<1>3. ~Close
  <2>1. Close => mount'.phase = "closed"
    BY DEF Close, Closed
  <2>. QED
    BY <2>1
<1>4. ~Hit /\ ~Fill /\ \A n, off, len : ~BeginRead(n, off, len)
  BY <1>1 DEF Hit, Fill, BeginRead
<1>5. ~Miss
  <2>. SUFFICES ASSUME Miss PROVE FALSE
    OBVIOUS
  <2>1. PICK t, b : mount' = [mount EXCEPT !.tick = t, !.stale = b]
    BY DEF Miss
  <2>2. mount'.phase = mount.phase
    BY <1>0, <2>1 DEF MountRecord
  <2>. QED
    BY <1>0, <2>2
<1>6. \A d : ~FileChanges(d)
  <2>. SUFFICES ASSUME NEW d, FileChanges(d) PROVE FALSE
    OBVIOUS
  <2>1. \E b : mount' = [mount EXCEPT !.archive = d.zip, !.raced = b]
    BY <1>0, <1>1 DEF FileChanges
  <2>2. \A b : [mount EXCEPT !.archive = d.zip, !.raced = b].phase = mount.phase
    BY <1>0 DEF MountRecord
  <2>. QED
    BY <1>0, <2>1, <2>2
<1>7. ~WrittenInPlace /\ ~Replaced
  BY <1>6 DEF WrittenInPlace, Replaced
<1>8. ~Edit
  BY <1>1 DEF Edit
<1>9. /\ \A n : ~EntryCreate(n) /\ ~EntryRemove(n)
      /\ \A n, i : ~WriteInto(n, i)
      /\ \A old, new : ~EntryRename(old, new)
  BY <1>8 DEF EntryCreate, EntryRemove, WriteInto, EntryRename
<1>. QED
  BY <1>2, <1>3, <1>4, <1>5, <1>7, <1>9 DEF Next

\* What is written behind the end leaves what is before it.
LEMMA AppendKeeps ==
  ASSUME NEW zip, Blocks(zip), NEW cells, Blocks(cells)
  PROVE  IsPrefix(zip, Overwritten(zip, Len(zip), cells))
<1>1. PICK n \in Nat : n = Len(zip)
  BY DEF Blocks, IsSeq
<1>2. PICK c \in Nat : c = Len(cells)
  BY DEF Blocks, IsSeq
<1>3. PICK new : new = Overwritten(zip, n, cells)
  OBVIOUS
<1>4. PICK m \in Nat : m = n + c /\ n <= m
  <2>1. n + c \in Nat /\ n <= n + c
    OBVIOUS
  <2>. QED
    BY <2>1
<1>5. Greater(n + c, n) = m
  BY <1>4 DEF Greater
<1>6. new = [i \in 1..m |-> IF i > n /\ i <= n + c THEN cells[i - n]
                            ELSE IF i <= n THEN zip[i] ELSE Pad]
  BY <1>1, <1>2, <1>3, <1>5 DEF Overwritten
<1>7. Len(new) = m /\ IsSeq(new)
  BY <1>6 DEF IsSeq
<1>8. \A i \in 1..n : new[i] = zip[i]
  BY <1>4, <1>6
<1>9. PICK x : x = SubSeq(new, 1, n)
  OBVIOUS
<1>10. PICK y : y = SubSeq(zip, 1, n)
  OBVIOUS
<1>11. PartOf(new, 1, n, x)
  <2>1. 1 + n - 1 = n /\ 1 + n - 1 <= Len(new) /\ 1 \in Nat \ {0}
    BY <1>4, <1>7
  <2>. QED
    BY <1>7, <1>9, <2>1, PartIs
<1>12. PartOf(zip, 1, n, y)
  <2>1. 1 + n - 1 = n /\ 1 + n - 1 <= Len(zip) /\ 1 \in Nat \ {0} /\ IsSeq(zip)
    BY <1>1 DEF Blocks
  <2>. QED
    BY <1>10, <2>1, PartIs
<1>13. \A k \in 1..n : 1 + k - 1 = k
  OBVIOUS
<1>14. IsSeq(x) /\ IsSeq(y) /\ Len(x) = n /\ Len(y) = n /\ \A k \in 1..n : y[k] = x[k]
  BY <1>8, <1>11, <1>12, <1>13 DEF PartOf
<1>15. x = y
  BY <1>14, SeqSame
<1>. QED
  BY <1>1, <1>3, <1>4, <1>7, <1>9, <1>10, <1>15 DEF IsPrefix

\* A commit that succeeds: its mode, and what it makes of a file that nobody changed.
CommitMade(mode, order) ==
  /\ mount'.before = mount.archive /\ (mount'.how = "commit" => mode = ModeOf("commit"))
  /\ mode = mount'.mode /\ mode \in Modes /\ order \in Orders /\ Untouched
  /\ Built(mode, order).ok /\ disk'.zip = Built(mode, order).cells
  /\ CommitReady /\ mount.archive = disk.zip /\ Blocks(disk.zip)

\* It is the step that ends a mount with the history of one.
LEMMA CommitMakes ==
  ASSUME MapInv, ArchiveInv, [Next]_vars, mount.phase = "open", mount'.phase = "committed"
  PROVE  \E mode, order : CommitMade(mode, order)
<1>1. CommitChanges \/ Compact
  BY CommitEnds
<1>2. PICK how \in {"full", "incremental", "commit", "compact"}, mode \in Modes,
           order \in Orders :
        Commit(how, mode, order) /\ (how = "commit" => mode = ModeOf("commit"))
  <2>1. CASE CommitChanges
    <3>1. PICK how \in {"full", "incremental", "commit"}, o \in Orders : Commit(how, ModeOf(how), o)
      BY <2>1 DEF CommitChanges
    <3>2. PICK mode \in Modes : mode = ModeOf(how)
      <4>1. ModeOf(how) \in Modes
        BY <3>1 DEF ModeOf, Modes
      <4>. QED
        BY <4>1
    <3>. QED
      BY <3>1, <3>2
  <2>2. CASE Compact
    <3>1. PICK o \in Orders : Commit("compact", "full", o)
      BY <2>2 DEF Compact
    <3>2. "full" \in Modes
      BY DEF Modes
    <3>. QED
      BY <3>1, <3>2
  <2>. QED
    BY <1>1, <2>1, <2>2
<1>3. PICK built : built = Built(mode, order)
  OBVIOUS
<1>4. /\ disk' = IF ~built.ok THEN disk
                 ELSE [ino |-> IF mode = "full" THEN disk.ino + 1 ELSE disk.ino,
                       mtime |-> disk.mtime + 1, zip |-> built.cells]
      /\ mount' = IF built.ok /\ Untouched
                  THEN [phase |-> "committed", how |-> how, mode |-> mode, before |-> mount.archive]
                  ELSE Closed
  BY <1>2, <1>3 DEF Commit, Install
<1>5. Closed.phase = "closed"
  BY DEF Closed
<1>6. built.ok /\ Untouched
  BY <1>4, <1>5
<1>7. /\ mode = mount'.mode /\ disk'.zip = built.cells
      /\ mount'.before = mount.archive /\ mount'.how = how
  BY <1>4, <1>6
<1>8. CommitReady
  BY DEF CommitReady, ArchiveInv, TypedInv, Mounted
<1>9. mount.archive = disk.zip /\ Blocks(disk.zip)
  BY <1>6 DEF Untouched, MapInv, MapIsFile, Mounted, ArchiveInv, TypedInv, DiskTyped
<1>10. CommitMade(mode, order)
  <2>1. mount'.how = "commit" => mode = ModeOf("commit")
    BY <1>2, <1>7
  <2>. QED
    BY <1>2, <1>3, <1>6, <1>7, <1>8, <1>9, <2>1 DEF CommitMade
<1>. QED
  BY <1>10

\* An INCREMENTAL commit of an archive that nobody changed appends.
LEMMA IncrementalKeeps ==
  ASSUME MapInv, ArchiveInv, [Next]_vars, mount.phase = "open", mount'.phase = "committed",
         mount'.mode = "incremental"
  PROVE  IsPrefix(mount.snapshot.zip, disk'.zip)
<1>1. PICK mode, order : CommitMade(mode, order)
  BY CommitMakes
<1>2. mode \in Modes /\ order \in Orders /\ CommitReady
  BY <1>1 DEF CommitMade
<1>3. PICK built : built = Built(mode, order)
  OBVIOUS
<1>4. built.ok /\ mode = "incremental" /\ disk'.zip = built.cells
  BY <1>1, <1>3 DEF CommitMade
<1>5. disk = mount.snapshot /\ mount.archive = disk.zip
  BY <1>1 DEF CommitMade, Untouched
<1>6. PICK part : part = Laid(Len(mount.archive), BuildPieces(mode, order))
  OBVIOUS
<1>7. built = Appended(part)
  BY <1>3, <1>4, <1>6 DEF Built
<1>8. part.ok /\ built.cells = Overwritten(disk.zip, Len(mount.archive), part.cells)
  <2>1. Refused.ok = FALSE
    BY DEF Refused
  <2>2. part.ok
    BY <1>4, <1>7, <2>1 DEF Appended
  <2>3. built = [ok |-> TRUE, cells |-> Overwritten(disk.zip, Len(mount.archive), part.cells)]
    BY <1>7, <2>2 DEF Appended
  <2>. QED
    BY <2>2, <2>3
<1>9. Blocks(disk.zip)
  BY DEF ArchiveInv, TypedInv, DiskTyped
<1>10. Blocks(part.cells)
  <2>1. PICK base \in Nat : base = Len(mount.archive)
    BY <1>5, <1>9 DEF Blocks, IsSeq
  <2>2. PiecesAre(BuildPieces(mode, order))
    BY <1>2, BuildPiecesAre
  <2>. QED
    BY <1>6, <1>8, <2>1, <2>2, LaidIs
<1>. QED
  BY <1>4, <1>5, <1>8, <1>9, <1>10, AppendKeeps

\* An INCREMENTAL commit leaves every cell of the archive that was opened where it is
\* (commit_incremental seeks to the end of what was mapped).
THEOREM CommitAppends == Spec => IncrementalAppends
<1>1. MapInv /\ ArchiveInv /\ [Next]_vars =>
        [mount.phase = "open" /\ mount'.phase = "committed" =>
           (mount'.mode = "incremental" => IsPrefix(mount.snapshot.zip, disk'.zip))]_vars
  BY IncrementalKeeps
<1>. QED
  BY <1>1, MapInvariant, ArchiveInvariant, PTL DEF Spec, IncrementalAppends

-----------------------------------------------------------------------------
(* A commit that succeeds can be opened. *)

\* What is written behind the end of a file is laid out over it.
LEMMA AppendLays ==
  ASSUME NEW zip, IsSeq(zip), NEW base \in Nat, base = Len(zip), NEW body, IsSeq(body),
         NEW cd, IsSeq(cd), \A k \in 1..Len(cd) : cd[k].cell = "cdfh",
         NEW z, LaidCells(z, base, body, cd)
  PROVE  /\ LaidOver(Overwritten(zip, base, z), base, body, cd)
         /\ \A i \in 1..base : Overwritten(zip, base, z)[i] = zip[i]
<1>1. PICK b \in Nat, m \in Nat : b = Len(body) /\ m = Len(cd)
  BY DEF IsSeq
<1>2. PICK c \in Nat : c = Len(z) /\ c = b + m + 1
  <2>1. b + m + 1 \in Nat
    OBVIOUS
  <2>2. Len(z) = b + m + 1
    BY <1>1 DEF LaidCells
  <2>. QED
    BY <2>1, <2>2
<1>3. PICK t \in Nat : t = base + c /\ base <= t
  <2>1. base + c \in Nat /\ base <= base + c
    OBVIOUS
  <2>. QED
    BY <2>1
<1>4. PICK new : new = Overwritten(zip, base, z)
  OBVIOUS
<1>5. Greater(base + c, base) = t
  BY <1>3 DEF Greater
<1>6. new = [i \in 1..t |-> IF i > base /\ i <= base + c THEN z[i - base]
                            ELSE IF i <= base THEN zip[i] ELSE Pad]
  BY <1>2, <1>3, <1>4, <1>5 DEF Overwritten
<1>7. Len(new) = t /\ IsSeq(new)
  BY <1>6 DEF IsSeq
<1>8. \A i \in 1..base : new[i] = zip[i]
  BY <1>3, <1>6
<1>9. ASSUME NEW k \in 1..c PROVE new[base + k] = z[k]
  <2>1. base + k \in 1..t /\ base + k > base /\ base + k <= base + c /\ (base + k) - base = k
    BY <1>3
  <2>. QED
    BY <1>6, <2>1
<1>10. Len(new) = base + b + m + 1
  BY <1>2, <1>3, <1>7
<1>11. ASSUME NEW k \in 1..b PROVE new[base + k] = body[k]
  <2>1. k \in 1..c
    BY <1>2
  <2>2. z[k] = body[k]
    BY <1>1 DEF LaidCells
  <2>. QED
    BY <1>9, <2>1, <2>2
<1>12. ASSUME NEW k \in 1..m PROVE new[base + b + k] = cd[k]
  <2>1. b + k \in 1..c /\ base + (b + k) = base + b + k
    BY <1>2
  <2>2. z[b + k] = cd[k]
    BY <1>1 DEF LaidCells
  <2>. QED
    BY <1>9, <2>1, <2>2
<1>13. new[Len(new)] = Eocd(m, m, base + b, 0)
  <2>1. c \in 1..c /\ base + c = t
    BY <1>2, <1>3
  <2>2. z[c] = LaidEnd(base, body, cd)
    BY <1>2 DEF LaidCells
  <2>3. new[t] = LaidEnd(base, body, cd)
    BY <1>9, <2>1, <2>2
  <2>. QED
    BY <1>1, <1>7, <2>3 DEF LaidEnd
<1>14. LaidOver(new, base, body, cd)
  BY <1>1, <1>7, <1>10, <1>11, <1>12, <1>13 DEF LaidOver
<1>. QED
  BY <1>4, <1>8, <1>14

\* The record of a piece that is placed can be read, if its sizes are below the limit.
LEMMA PlacedReads ==
  ASSUME NEW pieces, PiecesAre(pieces), Kept(pieces), NEW base \in Nat,
         base + Len(Body(pieces, Len(pieces))) <= U32Max, NEW i \in 1..Len(pieces),
         NEW r, r = PlacedRecords(base, pieces)[i],
         r.z64 = <<>> => U32Max \notin {r.comp, r.uncomp}
  PROVE  Readable(r)
<1>1. PICK p : p = pieces[i]
  OBVIOUS
<1>2. Blocks(p.cells) /\ CdRecord(p.record) /\ (p.stays \/ Len(p.cells) > 0) /\ Movable(p.record, p.stays)
  BY <1>1 DEF PiecesAre, Kept, PieceIs
<1>3. PICK q : q = p.record
  OBVIOUS
<1>4. PICK off : PlacedIn(pieces, base, i, off)
  BY PlacedAt
<1>5. /\ r = RecordAt(p, base + off) /\ off \in Nat
      /\ Len(p.cells) > 0 => off + 1 \in 1..Len(Body(pieces, Len(pieces)))
  BY <1>1, <1>4 DEF PlacedIn
<1>6. CASE p.stays
  <2>1. r = [q EXCEPT !.lho = q.lho]
    BY <1>3, <1>5, <1>6 DEF RecordAt
  <2>2. r = q
    BY <1>2, <1>3, <2>1 DEF CdRecord
  <2>3. Widened(r) # NotWidened /\ r.cell = "cdfh"
    BY <1>2, <1>3, <1>6, <2>2 DEF Movable, CdRecord
  <2>. QED
    BY <2>3 DEF Readable
<1>7. CASE ~p.stays
  <2>1. PICK at \in Nat : at = base + off
    <3>1. base + off \in Nat
      BY <1>5
    <3>. QED
      BY <3>1
  <2>2. at # U32Max
    <3>1. PICK n : n = Len(Body(pieces, Len(pieces)))
      OBVIOUS
    <3>2. off + 1 \in 1..n /\ base + n <= U32Max
      BY <1>2, <1>5, <1>7, <3>1
    <3>3. off + 1 <= n /\ n \in Nat
      <4>1. Len(pieces) \in 0..Len(pieces)
        BY DEF PiecesAre, IsSeq
      <4>2. Blocks(Body(pieces, Len(pieces)))
        BY <4>1, BodyIs
      <4>3. n \in Nat
        BY <3>1, <4>2 DEF Blocks, IsSeq
      <4>. QED
        BY <3>2, <4>3
    <3>. QED
      BY <1>5, <2>1, <3>2, <3>3, ZipAssumption
  <2>3. r = [q EXCEPT !.lho = at]
    BY <1>3, <1>5, <1>7, <2>1 DEF RecordAt
  <2>4. CdRecord(r) /\ r.z64 = q.z64 /\ r.lho = at
    BY <1>2, <1>3, <2>3, RecordMoved DEF CdRecord
  <2>5. Widened(r) # NotWidened
    <3>1. CASE Widened(q) # NotWidened
      BY <1>2, <1>3, <2>2, <2>3, <3>1, WidenedMoved
    <3>2. CASE q.z64 = <<>>
      <4>1. U32Max \notin {r.uncomp, r.comp, r.lho}
        BY <2>2, <2>4, <3>2
      <4>. QED
        BY <2>4, <4>1, FittingReads
    <3>. QED
      BY <1>2, <1>3, <3>1, <3>2 DEF Movable
  <2>. QED
    BY <2>4, <2>5 DEF Readable, CdRecord
<1>. QED
  BY <1>6, <1>7
\* What a layout that succeeds leaves.
LaidDone(pieces, base, z) ==
  /\ Kept(pieces) /\ base + Len(Body(pieces, Len(pieces))) <= U32Max
  /\ LaidCells(z, base, Body(pieces, Len(pieces)), PlacedRecords(base, pieces))
  /\ IsSeq(Body(pieces, Len(pieces))) /\ IsSeq(PlacedRecords(base, pieces))
  /\ Len(PlacedRecords(base, pieces)) = Len(pieces)
  /\ \A k \in 1..Len(PlacedRecords(base, pieces)) : PlacedRecords(base, pieces)[k].cell = "cdfh"

\* No piece was refused, and the offsets fit.
LEMMA LaidIsDone ==
  ASSUME NEW pieces, PiecesAre(pieces), NEW base \in Nat, Laid(base, pieces).ok
  PROVE  LaidDone(pieces, base, Laid(base, pieces).cells)
<1>1. PICK body : body = Body(pieces, Len(pieces))
  OBVIOUS
<1>2. PICK cd : cd = PlacedRecords(base, pieces)
  OBVIOUS
<1>3. Refused.ok = FALSE
  BY DEF Refused
<1>4. Kept(pieces) /\ Laid(base, pieces) = Finished(base, body, cd)
  BY <1>1, <1>2, <1>3 DEF Laid, Kept
<1>5. Len(pieces) \in 0..Len(pieces)
  BY DEF PiecesAre, IsSeq
<1>6. IsSeq(body)
  BY <1>1, <1>4, <1>5, BodyIs DEF Blocks
<1>7. Blocks(cd) /\ Len(cd) = Len(pieces) /\ \A k \in 1..Len(pieces) : CdRecord(cd[k])
  BY <1>2, <1>4, RecordsPlaced
<1>8. IsSeq(cd) /\ \A k \in 1..Len(cd) : cd[k].cell = "cdfh"
  <2>1. ASSUME NEW k \in 1..Len(cd) PROVE cd[k].cell = "cdfh"
    <3>1. CdRecord(cd[k])
      BY <1>7
    <3>. QED
      BY <3>1 DEF CdRecord
  <2>. QED
    BY <1>7, <2>1 DEF Blocks
<1>9. PICK z : z = Finished(base, body, cd).cells
  OBVIOUS
<1>10. LaidCells(z, base, body, cd) /\ base + Len(body) <= U32Max
  BY <1>4, <1>6, <1>8, <1>9, FinishedLays
<1>. QED
  BY <1>1, <1>2, <1>4, <1>6, <1>7, <1>8, <1>9, <1>10 DEF LaidDone

\* What a directory without limit values says of a file that was laid out.
LEMMA FittingLaid ==
  ASSUME NEW zip, NEW base, NEW body, NEW cd, LaidOver(zip, base, body, cd), UnderLimits(zip)
  PROVE  /\ ~IsWide(LaidEnd(base, body, cd))
         /\ \A i \in 1..Len(cd) : cd[i].z64 = <<>> => U32Max \notin {cd[i].comp, cd[i].uncomp}
<1>1. PICK end : end = At(zip, Len(zip) - 1)
  OBVIOUS
<1>2. end = LaidEnd(base, body, cd)
  BY <1>1, LaidEocd
<1>3. PICK b \in Nat, m \in Nat : b = base + Len(body) /\ m = Len(cd)
  <2>1. base + Len(body) \in Nat /\ Len(cd) \in Nat
    BY DEF LaidOver
  <2>. QED
    BY <2>1
<1>4. end.cdOffset = b /\ end.count = m
  BY <1>2, <1>3 DEF LaidEnd, Eocd
<1>5. Len(zip) = b + m + 1
  BY <1>3 DEF LaidOver
<1>6. ASSUME NEW i \in 1..m PROVE At(zip, b + i - 1) = cd[i]
  <2>1. b + i - 1 < Len(zip) /\ (b + i - 1) + 1 = b + i
    BY <1>5
  <2>2. At(zip, b + i - 1) = zip[b + i]
    BY <2>1 DEF At
  <2>3. zip[b + i] = cd[i]
    BY <1>3 DEF LaidOver
  <2>. QED
    BY <2>2, <2>3
<1>7. /\ ~IsWide(end)
      /\ \A i \in 1..m : At(zip, b + i - 1).z64 = <<>> =>
           U32Max \notin {At(zip, b + i - 1).comp, At(zip, b + i - 1).uncomp}
  BY <1>1, <1>4 DEF UnderLimits
<1>. QED
  BY <1>2, <1>3, <1>6, <1>7

\* The file that a commit of some pieces leaves.
CommitLaid(zip, pieces, base) ==
  /\ PiecesAre(pieces) /\ base \in Nat /\ Kept(pieces)
  /\ base + Len(Body(pieces, Len(pieces))) <= U32Max
  /\ LaidOver(zip, base, Body(pieces, Len(pieces)), PlacedRecords(base, pieces))
  /\ Len(PlacedRecords(base, pieces)) = Len(pieces)

\* It can be opened below the limits.
LEMMA FittingOpens ==
  ASSUME NEW zip, NEW pieces, NEW base, CommitLaid(zip, pieces, base), UnderLimits(zip)
  PROVE  Parse(zip).ok
<1>1. PICK cd : cd = PlacedRecords(base, pieces)
  OBVIOUS
<1>2. PICK body : body = Body(pieces, Len(pieces))
  OBVIOUS
<1>3. LaidOver(zip, base, body, cd) /\ Len(cd) = Len(pieces)
  BY <1>1, <1>2 DEF CommitLaid
<1>4. /\ ~IsWide(LaidEnd(base, body, cd))
      /\ \A i \in 1..Len(cd) : cd[i].z64 = <<>> => U32Max \notin {cd[i].comp, cd[i].uncomp}
  BY <1>3, FittingLaid
<1>5. ASSUME NEW i \in 1..Len(cd) PROVE Readable(cd[i])
  <2>1. i \in 1..Len(pieces) /\ PiecesAre(pieces) /\ Kept(pieces) /\ base \in Nat
    BY <1>3 DEF CommitLaid
  <2>2. base + Len(Body(pieces, Len(pieces))) <= U32Max
    BY DEF CommitLaid
  <2>3. PICK r : r = cd[i]
    OBVIOUS
  <2>4. r = PlacedRecords(base, pieces)[i] /\ (r.z64 = <<>> => U32Max \notin {r.comp, r.uncomp})
    BY <1>1, <1>4, <2>3
  <2>5. Readable(r)
    BY <2>1, <2>2, <2>4, PlacedReads
  <2>. QED
    BY <2>3, <2>5
<1>. QED
  BY <1>3, <1>4, <1>5, LaidParses
\* What a commit that succeeds does: its mode, and what it lays out over what.
CommitLeaves(mode, order) ==
  /\ mount'.before = mount.archive /\ (mount'.how = "commit" => mode = ModeOf("commit"))
  /\ mode = mount'.mode /\ mode \in Modes /\ order \in Orders /\ Blocks(mount.archive)
  /\ CommitLaid(disk'.zip, BuildPieces(mode, order), IF mode = "full" THEN 0 ELSE Len(mount.archive))
  /\ mode = "incremental" => \A i \in 1..Len(mount.archive) : disk'.zip[i] = mount.archive[i]

\* The step that ends a mount with the history of a commit.
LEMMA CommitDoes ==
  ASSUME MapInv, ArchiveInv, [Next]_vars, mount.phase = "open", mount'.phase = "committed"
  PROVE  \E mode, order : CommitLeaves(mode, order)
<1>1. PICK mode, order : CommitMade(mode, order)
  BY CommitMakes
<1>2. /\ mode \in Modes /\ order \in Orders /\ mode = mount'.mode /\ CommitReady
      /\ mount'.before = mount.archive /\ (mount'.how = "commit" => mode = ModeOf("commit"))
  BY <1>1 DEF CommitMade
<1>3. PICK built : built = Built(mode, order)
  OBVIOUS
<1>4. built.ok /\ disk'.zip = built.cells
  BY <1>1, <1>3 DEF CommitMade
<1>5. mount.archive = disk.zip /\ Blocks(disk.zip) /\ Blocks(mount.archive)
  BY <1>1 DEF CommitMade
<1>6. PICK pieces : pieces = BuildPieces(mode, order)
  OBVIOUS
<1>7. PiecesAre(pieces)
  BY <1>2, <1>6, BuildPiecesAre
<1>8. Refused.ok = FALSE
  BY DEF Refused
<1>9. CASE mode = "full"
  <2>1. PICK new : new = Laid(0, pieces)
    OBVIOUS
  <2>2. built = Verified(new)
    BY <1>3, <1>6, <1>9, <2>1 DEF Built
  <2>3. new.ok /\ built = new
    BY <1>4, <1>8, <2>2 DEF Verified
  <2>4. PICK base \in Nat : base = 0
    OBVIOUS
  <2>5. LaidDone(pieces, base, new.cells)
    BY <1>7, <2>1, <2>3, <2>4, LaidIsDone
  <2>6. PICK body, cd : body = Body(pieces, Len(pieces)) /\ cd = PlacedRecords(base, pieces)
    OBVIOUS
  <2>7. LaidOver(new.cells, base, body, cd)
    <3>1. /\ LaidCells(new.cells, 0, body, cd) /\ IsSeq(body) /\ IsSeq(cd)
          /\ \A k \in 1..Len(cd) : cd[k].cell = "cdfh"
      BY <2>4, <2>5, <2>6 DEF LaidDone
    <3>. QED
      BY <2>4, <3>1, CellsLaid
  <2>8. CommitLaid(disk'.zip, pieces, base)
    BY <1>4, <1>7, <2>3, <2>5, <2>6, <2>7 DEF CommitLaid, LaidDone
  <2>9. CommitLeaves(mode, order)
    BY <1>2, <1>4, <1>5, <1>6, <1>9, <2>4, <2>8 DEF CommitLeaves
  <2>. QED
    BY <2>9
<1>10. CASE mode = "incremental"
  <2>1. PICK base \in Nat : base = Len(mount.archive) /\ base = Len(disk.zip)
    BY <1>5 DEF Blocks, IsSeq
  <2>2. PICK part : part = Laid(base, pieces)
    OBVIOUS
  <2>3. built = Appended(part)
    BY <1>3, <1>6, <1>10, <2>1, <2>2 DEF Built
  <2>4. part.ok
    BY <1>4, <1>8, <2>3 DEF Appended
  <2>5. built.cells = Overwritten(disk.zip, base, part.cells)
    <3>1. built = [ok |-> TRUE, cells |-> Overwritten(disk.zip, base, part.cells)]
      BY <2>1, <2>3, <2>4 DEF Appended
    <3>. QED
      BY <3>1
  <2>6. PICK z : z = part.cells
    OBVIOUS
  <2>7. LaidDone(pieces, base, z)
    BY <1>7, <2>2, <2>4, <2>6, LaidIsDone
  <2>8. PICK body, cd : body = Body(pieces, Len(pieces)) /\ cd = PlacedRecords(base, pieces)
    OBVIOUS
  <2>9. PICK zip : zip = disk.zip
    OBVIOUS
  <2>10. /\ LaidOver(Overwritten(zip, base, z), base, body, cd)
         /\ \A i \in 1..base : Overwritten(zip, base, z)[i] = zip[i]
    <3>1. /\ LaidCells(z, base, body, cd) /\ IsSeq(body) /\ IsSeq(cd)
          /\ \A k \in 1..Len(cd) : cd[k].cell = "cdfh"
      BY <2>7, <2>8 DEF LaidDone
    <3>2. IsSeq(zip) /\ base = Len(zip)
      BY <1>5, <2>1, <2>9 DEF Blocks
    <3>. QED
      BY <3>1, <3>2, AppendLays
  <2>11. disk'.zip = Overwritten(zip, base, z)
    BY <1>4, <2>5, <2>6, <2>9
  <2>12. CommitLaid(disk'.zip, pieces, base)
    BY <1>7, <2>7, <2>8, <2>10, <2>11 DEF CommitLaid, LaidDone
  <2>13. mode # "full" /\ \A i \in 1..Len(mount.archive) : disk'.zip[i] = mount.archive[i]
    BY <1>5, <1>10, <2>1, <2>9, <2>10, <2>11
  <2>14. CommitLeaves(mode, order)
    BY <1>2, <1>4, <1>5, <1>6, <2>1, <2>12, <2>13 DEF CommitLeaves
  <2>. QED
    BY <2>14
<1>. QED
  BY <1>2, <1>9, <1>10 DEF Modes
\* After a commit nothing changes the file but what forgets that there was one.
LEMMA StaysCommitted ==
  MapInv /\ [Next]_vars /\ ~Mounted /\ mount'.phase = "committed" => UNCHANGED <<disk, mount>>
<1>. SUFFICES ASSUME MapInv, [Next]_vars, ~Mounted, mount'.phase = "committed"
              PROVE  UNCHANGED <<disk, mount>>
  OBVIOUS
<1>1. CASE UNCHANGED vars \/ OpenRefused
  BY <1>1 DEF vars, store, OpenRefused
<1>2. ~Open
  <2>1. Open => mount'.phase = "open"
    BY DEF Open, OpenOver
  <2>. QED
    BY <2>1
<1>3. ~Close /\ ~Hit /\ ~Miss /\ ~Fill /\ \A n, off, len : ~BeginRead(n, off, len)
  BY DEF Close, Hit, Miss, Fill, BeginRead, MapInv, ReadsOpen
<1>4. ~CommitChanges /\ ~Compact
  BY DEF CommitChanges, Compact, Commit
<1>5. \A d : ~FileChanges(d)
  <2>. SUFFICES ASSUME NEW d, FileChanges(d) PROVE FALSE
    OBVIOUS
  <2>1. mount'.phase = "closed"
    BY DEF FileChanges, Closed
  <2>. QED
    BY <2>1
<1>6. ~WrittenInPlace /\ ~Replaced
  BY <1>5 DEF WrittenInPlace, Replaced
<1>7. ~Edit
  BY DEF Edit
<1>8. /\ \A n : ~EntryCreate(n) /\ ~EntryRemove(n)
      /\ \A n, i : ~WriteInto(n, i)
      /\ \A old, new : ~EntryRename(old, new)
  BY <1>7 DEF EntryCreate, EntryRemove, WriteInto, EntryRename
<1>. QED
  BY <1>1, <1>2, <1>3, <1>4, <1>6, <1>8 DEF Next

\* A commit that leaves values below the limits leaves an archive that opens.
LEMMA NextOpens ==
  MapInv /\ ArchiveInv /\ CommitOpens /\ BelowLimits' /\ [Next]_vars => CommitOpens'
<1>. SUFFICES ASSUME MapInv, ArchiveInv, CommitOpens, BelowLimits', [Next]_vars,
                     mount'.phase = "committed"
              PROVE  Parse(disk'.zip).ok
  BY DEF CommitOpens
<1>1. CASE ~Mounted
  <2>1. UNCHANGED <<disk, mount>>
    BY <1>1, StaysCommitted
  <2>. QED
    BY <2>1 DEF CommitOpens
<1>2. CASE Mounted
  <2>1. PICK mode, order : CommitLeaves(mode, order)
    BY <1>2, CommitDoes DEF Mounted
  <2>2. PICK pieces, base, zip : CommitLaid(zip, pieces, base) /\ zip = disk'.zip
    BY <2>1 DEF CommitLeaves
  <2>3. UnderLimits(zip)
    <3>1. UnderLimits(disk.zip)'
      BY DEF BelowLimits
    <3>. QED
      BY <2>2, <3>1
  <2>. QED
    BY <2>2, <2>3, FittingOpens
<1>. QED
  BY <1>1, <1>2

\* Below the limit values, whatever the archive, its index and the edits, every commit
\* that succeeds leaves an archive that opens, also the one that appends, which does
\* not parse what it writes (commit_incremental, finalize; parse_zip64_extra, parse_cd).
THEOREM CommitsOpenBelow == Spec /\ []BelowLimits => []CommitOpens
<1>1. Init => CommitOpens
  <2>. SUFFICES ASSUME Init PROVE CommitOpens
    OBVIOUS
  <2>1. mount.phase = "closed"
    BY DEF Init, Closed
  <2>. QED
    BY <2>1 DEF CommitOpens
<1>. QED
  BY <1>1, NextOpens, MapInvariant, ArchiveInvariant, PTL DEF Spec

-----------------------------------------------------------------------------
(* What an entry keeps that was not touched. *)

\* Sequences behind each other keep the elements of the first.
LEMMA JoinFirst ==
  ASSUME NEW s, IsSeq(s), NEW t, IsSeq(t), NEW j \in 1..Len(s)
  PROVE  j \in 1..Len(s \o t) /\ (s \o t)[j] = s[j]
<1>1. PICK z : z = s \o t
  OBVIOUS
<1>2. JoinOf(s, t, z)
  BY <1>1, JoinIs
<1>3. PICK a \in Nat, b \in Nat : a = Len(s) /\ b = Len(t)
  BY DEF IsSeq
<1>4. Len(z) = a + b /\ z[j] = s[j] /\ j \in 1..a
  BY <1>2, <1>3 DEF JoinOf
<1>5. j \in 1..(a + b)
  BY <1>3, <1>4
<1>. QED
  BY <1>1, <1>4, <1>5

\* The one piece of an entry of the archive is among those of the commit.
LEMMA BuildHas ==
  ASSUME CommitReady, NEW mode \in Modes, NEW order \in Orders, NEW e \in EntriesOf(mount.archive),
         NEW p, SourcePieces(mode, e) = <<p>>
  PROVE  EntryOk(e) /\ \E j \in 1..Len(BuildPieces(mode, order)) : BuildPieces(mode, order)[j] = p
<1>1. PICK S, C, A : BuildParts(mode, order, S, C, A)
  BY BuildPartsAre
<1>2. PICK es : es = Parse(mount.archive).entries
  BY SMTT(40)
<1>3. IsSeq(es) /\ \A i \in 1..Len(es) : EntryOk(es[i]) /\ IsSeq(S[i])
  BY <1>1, <1>2 DEF BuildParts, PiecesAre
<1>4. PICK m \in Nat : m = Len(es) /\ DOMAIN es = 1..m
  BY <1>3 DEF IsSeq
<1>5. PICK i \in 1..m : e = es[i]
  BY <1>2, <1>4 DEF EntriesOf, ToSet
<1>6. S = [k \in 1..m |-> S[k]] /\ S[i] = <<p>>
  BY <1>1, <1>2, <1>4, <1>5 DEF BuildParts
<1>7. Pre(S, m) = S
  BY <1>6 DEF Pre
<1>8. PICK l : l \in 1..Len(S[i]) /\ S[i][l] = p
  <2>1. 1 \in 1..Len(S[i]) /\ S[i][1] = p
    BY <1>6
  <2>. QED
    BY <2>1
<1>9. PICK x, y, z : x = FlattenSeq(S) /\ y = FlattenSeq(C) /\ z = FlattenSeq(A)
  OBVIOUS
<1>10. \E j \in 1..Len(x) : x[j] = p
  <2>1. \A k \in 1..m : IsSeq(S[k])
    BY <1>3, <1>4
  <2>2. /\ Len(FlattenSeq(Pre(S, i - 1))) + l \in 1..Len(FlattenSeq(Pre(S, m)))
        /\ FlattenSeq(Pre(S, m))[Len(FlattenSeq(Pre(S, i - 1))) + l] = S[i][l]
    BY <1>8, <2>1, FlattenPlace
  <2>. QED
    BY <1>7, <1>8, <1>9, <2>2
<1>11. PICK j \in 1..Len(x) : x[j] = p
  BY <1>10
<1>12. IsSeq(x) /\ IsSeq(y) /\ IsSeq(z) /\ BuildPieces(mode, order) = (x \o y) \o z
  BY <1>1, <1>9 DEF BuildParts, PiecesAre
<1>13. j \in 1..Len(x \o y) /\ (x \o y)[j] = p
  BY <1>11, <1>12, JoinFirst
<1>14. IsSeq(x \o y)
  BY <1>12, JoinIs DEF JoinOf
<1>15. j \in 1..Len((x \o y) \o z) /\ ((x \o y) \o z)[j] = p
  BY <1>12, <1>13, <1>14, JoinFirst
<1>. QED
  BY <1>3, <1>4, <1>5, <1>12, <1>15

\* The piece of an entry that was not touched.
LEMMA KeptPiece ==
  ASSUME NEW mode \in Modes, NEW e, overlay[e.name] = Clean, ~diff[e.name].dirty,
         mode = "full" => VerbatimEligible(e)
  PROVE  SourcePieces(mode, e) = <<IF mode = "full" THEN Verbatim(mount.archive, e) ELSE InPlace(e)>>
<1>1. overlay[e.name].kind = "none"
  BY DEF Clean
<1>2. SourcePieces(mode, e) = <<CleanPiece(mode, e)>>
  BY <1>1 DEF SourcePieces
<1>3. CleanPiece(mode, e) = IF mode = "full" THEN Verbatim(mount.archive, e) ELSE InPlace(e)
  BY DEF CleanPiece, Modes
<1>. QED
  BY <1>2, <1>3
\* The place of a piece that is written is below the limit.
LEMMA PlaceFits ==
  ASSUME NEW pieces, NEW base, NEW zip, CommitLaid(zip, pieces, base), NEW j \in 1..Len(pieces),
         NEW off, PlacedIn(pieces, base, j, off), ~pieces[j].stays
  PROVE  /\ base + off \in Nat /\ base + off # U32Max
         /\ zip[base + off + 1] = pieces[j].cells[1] /\ base + off < Len(zip)
<1>1. Len(pieces[j].cells) > 0
  BY DEF CommitLaid, PiecesAre, Kept, PieceIs
<1>2. PICK body, cd : body = Body(pieces, Len(pieces)) /\ cd = PlacedRecords(base, pieces)
  OBVIOUS
<1>3. LaidOver(zip, base, body, cd) /\ base + Len(body) <= U32Max
  BY <1>2 DEF CommitLaid
<1>4. PICK a \in Nat, n \in Nat, m \in Nat : a = base /\ n = Len(body) /\ m = Len(cd)
  BY <1>3 DEF LaidOver
<1>5. Len(zip) = a + n + m + 1 /\ \A k \in 1..n : zip[a + k] = body[k]
  BY <1>3, <1>4 DEF LaidOver
<1>6. off \in Nat /\ off + 1 \in 1..n /\ body[off + 1] = pieces[j].cells[1]
  BY <1>1, <1>2, <1>4 DEF PlacedIn
<1>7. zip[a + (off + 1)] = pieces[j].cells[1]
  BY <1>5, <1>6
<1>8. a + (off + 1) = a + off + 1 /\ a + off \in Nat /\ a + off < a + n /\ a + n <= U32Max
  BY <1>3, <1>4, <1>6
<1>9. a + off # U32Max /\ a + off < Len(zip)
  BY <1>5, <1>8, ZipAssumption
<1>. QED
  BY <1>4, <1>7, <1>8, <1>9

\* The entry of a record that was laid out, in an archive that opens.
LEMMA LaidEntry ==
  ASSUME NEW pieces, NEW base, NEW zip, CommitLaid(zip, pieces, base), Parse(zip).ok,
         NEW j \in 1..Len(pieces), NEW x, x = PlacedRecords(base, pieces)[j]
  PROVE  EntryOf(x, Widened(x)) \in EntriesOf(zip)
<1>1. PICK body, cd : body = Body(pieces, Len(pieces)) /\ cd = PlacedRecords(base, pieces)
  OBVIOUS
<1>2. LaidOver(zip, base, body, cd) /\ Len(cd) = Len(pieces)
  BY <1>1 DEF CommitLaid
<1>3. PICK m \in Nat : m = Len(cd)
  BY <1>2 DEF LaidOver
<1>4. j \in 1..m /\ m # 0
  BY <1>2, <1>3
<1>5. ~IsWide(LaidEnd(base, body, cd))
  BY <1>2, <1>3, <1>4, WideRefused
<1>6. Parse(zip).entries = LaidEntries(cd)
  BY <1>2, <1>5, LaidParses
<1>7. PICK es : es = LaidEntries(cd)
  OBVIOUS
<1>8. es[j] = EntryOf(x, Widened(x)) /\ j \in DOMAIN es
  BY <1>1, <1>3, <1>4, <1>7 DEF LaidEntries
<1>. QED
  BY <1>6, <1>7, <1>8 DEF EntriesOf, ToSet

\* What an entry of the new archive keeps of one of the old.
KeptOf(e, f, old, new) ==
  /\ [f.record EXCEPT !.lho = 0] = [e.record EXCEPT !.lho = 0]
  /\ At(new, f.lho) = At(old, e.lho)

\* The record with another place, and its entry.
LEMMA MovedEntry ==
  ASSUME NEW e, EntryOk(e), NEW at \in Nat, at # U32Max \/ at = e.lho,
         NEW x, x = [e.record EXCEPT !.lho = at], NEW f, f = EntryOf(x, Widened(x))
  PROVE  f.lho = at /\ [f.record EXCEPT !.lho = 0] = [e.record EXCEPT !.lho = 0]
<1>1. PICK r : r = e.record
  OBVIOUS
<1>2. CdRecord(r) /\ Widened(r) # NotWidened /\ e.lho = Widened(r)[3]
  BY <1>1 DEF EntryOk
<1>3. Widened(x)[3] = at
  BY <1>1, <1>2, WidenedMoved
<1>4. f.record = x /\ f.lho = Widened(x)[3]
  BY DEF EntryOf
<1>5. [[r EXCEPT !.lho = at] EXCEPT !.lho = 0] = [r EXCEPT !.lho = 0]
  BY <1>2 DEF CdRecord
<1>. QED
  BY <1>1, <1>3, <1>4, <1>5

\* An entry that is left in place by a commit that appends.
LEMMA InPlaceKept ==
  ASSUME NEW pieces, NEW base, NEW zip, CommitLaid(zip, pieces, base), Parse(zip).ok,
         NEW old, base = Len(old), \A i \in 1..base : zip[i] = old[i],
         NEW e, EntryOk(e), e.lho < Len(old), NEW j \in 1..Len(pieces), pieces[j] = InPlace(e)
  PROVE  \E f \in EntriesOf(zip) : KeptOf(e, f, old, zip)
<1>1. PICK y : y = [e.record EXCEPT !.lho = e.lho]
  OBVIOUS
<1>2. PICK p : p = Piece(<<>>, y, TRUE)
  OBVIOUS
<1>3. p.record = y /\ p.stays
  BY <1>2 DEF Piece
<1>4. pieces[j] = p
  BY <1>1, <1>2 DEF CommitLaid, Kept, InPlace
<1>5. PICK off : PlacedIn(pieces, base, j, off)
  BY PlacedAt DEF CommitLaid
<1>6. PICK x : x = PlacedRecords(base, pieces)[j]
  OBVIOUS
<1>7. x = RecordAt(p, base + off)
  BY <1>4, <1>5, <1>6 DEF PlacedIn
<1>8. x = [y EXCEPT !.lho = y.lho]
  BY <1>3, <1>7 DEF RecordAt
<1>9. CdRecord(y) /\ y.lho = e.lho
  <2>1. e.lho \in Nat /\ CdRecord(e.record)
    BY DEF EntryOk
  <2>2. CdRecord(y)
    BY <1>1, <2>1, RecordMoved
  <2>3. y.lho = e.lho
    BY <1>1, <2>1 DEF CdRecord
  <2>. QED
    BY <2>2, <2>3
<1>10. x = y
  BY <1>8, <1>9 DEF CdRecord
<1>11. PICK f : f = EntryOf(x, Widened(x))
  OBVIOUS
<1>12. f \in EntriesOf(zip)
  BY <1>6, <1>11, LaidEntry
<1>13. PICK at \in Nat : at = e.lho
  BY DEF EntryOk
<1>14. f.lho = at /\ [f.record EXCEPT !.lho = 0] = [e.record EXCEPT !.lho = 0]
  BY <1>1, <1>10, <1>11, <1>13, MovedEntry
<1>15. At(zip, at) = At(old, at)
  <2>1. LaidOver(zip, base, Body(pieces, Len(pieces)), PlacedRecords(base, pieces)) /\ base \in Nat
    BY DEF CommitLaid
  <2>2. PICK n \in Nat, m \in Nat :
          n = Len(Body(pieces, Len(pieces))) /\ m = Len(PlacedRecords(base, pieces))
    BY <2>1 DEF LaidOver
  <2>3. Len(zip) = base + n + m + 1
    BY <2>1, <2>2 DEF LaidOver
  <2>4. at < Len(old) /\ at < Len(zip) /\ at + 1 \in 1..base
    BY <1>13, <2>1, <2>3
  <2>. QED
    BY <2>4 DEF At
<1>. QED
  BY <1>12, <1>13, <1>14, <1>15 DEF KeptOf

\* An entry that is copied as it is by a commit that lays out everything anew.
LEMMA VerbatimKept ==
  ASSUME NEW pieces, NEW zip, CommitLaid(zip, pieces, 0), Parse(zip).ok,
         NEW old, Blocks(old), NEW e, EntryOk(e), e.lho < Len(old),
         NEW j \in 1..Len(pieces), pieces[j] = Verbatim(old, e)
  PROVE  \E f \in EntriesOf(zip) : KeptOf(e, f, old, zip)
<1>1. ~(e.record.lho = U32Max \/ DataOffset(old, e) = NoData)
  BY DEF CommitLaid, Kept, Verbatim
<1>2. PICK cells : cells = SubSeq(old, e.lho + 1, DataOffset(old, e) + e.comp)
  OBVIOUS
<1>3. PICK p : p = Piece(cells, e.record, FALSE)
  OBVIOUS
<1>4. p.record = e.record /\ ~p.stays /\ p.cells = cells
  BY <1>3 DEF Piece
<1>5. pieces[j] = p
  BY <1>1, <1>2, <1>3 DEF Verbatim
<1>6. PICK base \in Nat : base = 0
  OBVIOUS
<1>7. CommitLaid(zip, pieces, base)
  BY <1>6
<1>8. PICK off : PlacedIn(pieces, base, j, off)
  BY <1>7, PlacedAt DEF CommitLaid
<1>9. /\ base + off \in Nat /\ base + off # U32Max
      /\ zip[base + off + 1] = cells[1] /\ base + off < Len(zip)
  BY <1>4, <1>5, <1>7, <1>8, PlaceFits
<1>10. PICK at \in Nat : at = base + off /\ at # U32Max
  BY <1>9
<1>11. PICK x : x = PlacedRecords(base, pieces)[j]
  OBVIOUS
<1>12. x = [e.record EXCEPT !.lho = at]
  BY <1>4, <1>5, <1>8, <1>10, <1>11 DEF PlacedIn, RecordAt
<1>13. PICK f : f = EntryOf(x, Widened(x))
  OBVIOUS
<1>14. f \in EntriesOf(zip)
  BY <1>7, <1>11, <1>13, LaidEntry
<1>15. f.lho = at /\ [f.record EXCEPT !.lho = 0] = [e.record EXCEPT !.lho = 0]
  BY <1>10, <1>12, <1>13, MovedEntry
<1>16. At(zip, at) = cells[1]
  BY <1>9, <1>10 DEF At
<1>17. cells[1] = old[e.lho + 1]
  <2>1. PICK a \in Nat : a = e.lho
    BY DEF EntryOk
  <2>2. PICK b \in Nat : b = DataOffset(old, e) + e.comp /\ a + 1 <= b
    <3>1. /\ DataOffset(old, e) \in Nat /\ e.lho < DataOffset(old, e) /\ e.comp \in Nat
      BY <1>1, DataOffsetIs DEF EntryOk
    <3>. QED
      BY <2>1, <3>1
  <2>3. cells = SubSeq(old, a + 1, b)
    BY <1>2, <2>1, <2>2
  <2>4. Len(cells) = b - (a + 1) + 1 /\ \A i \in 1..Len(cells) : cells[i] = old[i + (a + 1) - 1]
    BY SMTT(40), <2>2, <2>3, AnyPart DEF Blocks
  <2>5. 1 \in 1..Len(cells) /\ 1 + (a + 1) - 1 = a + 1
    BY <2>2, <2>4
  <2>. QED
    BY <2>1, <2>4, <2>5
<1>18. At(old, e.lho) = old[e.lho + 1]
  BY DEF At
<1>. QED
  BY <1>14, <1>15, <1>16, <1>17, <1>18 DEF KeptOf

\* A commit whose archive opens keeps what was not touched.
LEMMA CommitKeeps ==
  ASSUME MapInv, ArchiveInv, CommitOpens', [Next]_vars, mount.phase = "open",
         mount'.phase = "committed", NEW e \in EntriesOf(mount.archive),
         overlay[e.name] = Clean, ~diff[e.name].dirty, e.lho < Len(mount.archive),
         mount'.mode = "full" => VerbatimEligible(e)
  PROVE  \E f \in EntriesOf(disk'.zip) : KeptOf(e, f, mount.archive, disk'.zip)
<1>1. PICK mode, order : CommitLeaves(mode, order)
  BY CommitDoes
<1>2. CommitReady
  BY DEF CommitReady, ArchiveInv, TypedInv, Mounted
<1>3. PICK p : p = IF mode = "full" THEN Verbatim(mount.archive, e) ELSE InPlace(e)
  OBVIOUS
<1>4. mode \in Modes /\ order \in Orders /\ Blocks(mount.archive) /\ mode = mount'.mode
  BY <1>1 DEF CommitLeaves
<1>5. SourcePieces(mode, e) = <<p>>
  BY <1>3, <1>4, KeptPiece
<1>6. EntryOk(e) /\ \E j \in 1..Len(BuildPieces(mode, order)) : BuildPieces(mode, order)[j] = p
  BY <1>2, <1>4, <1>5, BuildHas
<1>7. PICK pieces : pieces = BuildPieces(mode, order)
  OBVIOUS
<1>8. PICK j \in 1..Len(pieces) : pieces[j] = p
  BY <1>6, <1>7
<1>9. PICK zip, old : zip = disk'.zip /\ old = mount.archive
  OBVIOUS
<1>10. Parse(zip).ok
  BY <1>9 DEF CommitOpens
<1>11. CASE mode = "full"
  <2>1. CommitLaid(zip, pieces, 0)
    BY <1>1, <1>7, <1>9, <1>11 DEF CommitLeaves
  <2>2. pieces[j] = Verbatim(old, e) /\ Blocks(old) /\ e.lho < Len(old)
    BY <1>3, <1>4, <1>8, <1>9, <1>11
  <2>3. \E f \in EntriesOf(zip) : KeptOf(e, f, old, zip)
    BY <1>6, <1>10, <2>1, <2>2, VerbatimKept
  <2>. QED
    BY <1>9, <2>3
<1>12. CASE mode = "incremental"
  <2>1. PICK base : base = Len(old)
    OBVIOUS
  <2>2. CommitLaid(zip, pieces, base) /\ \A i \in 1..base : zip[i] = old[i]
    BY <1>1, <1>7, <1>9, <1>12, <2>1 DEF CommitLeaves
  <2>3. pieces[j] = InPlace(e) /\ e.lho < Len(old)
    BY <1>3, <1>8, <1>9, <1>12
  <2>4. \E f \in EntriesOf(zip) : KeptOf(e, f, old, zip)
    BY <1>6, <1>10, <2>1, <2>2, <2>3, InPlaceKept
  <2>. QED
    BY <1>9, <2>4
<1>. QED
  BY <1>4, <1>11, <1>12 DEF Modes

\* Where the archives that commits leave open, an entry that the session did not touch
\* keeps all of its record but the place, and the local header that it points to
\* (place_verbatim, record_in_place, write_placed).
THEOREM CommitKeepsMetadata == Spec /\ []CommitOpens => MetadataKept
<1>1. MapInv /\ ArchiveInv /\ CommitOpens' /\ [Next]_vars =>
        [mount.phase = "open" /\ mount'.phase = "committed" =>
           \A e \in EntriesOf(mount.archive) :
             /\ overlay[e.name] = Clean /\ ~diff[e.name].dirty /\ e.lho < Len(mount.archive)
             /\ mount'.mode = "full" => VerbatimEligible(e)
             => \E f \in EntriesOf(disk'.zip) :
                  /\ [f.record EXCEPT !.lho = 0] = [e.record EXCEPT !.lho = 0]
                  /\ At(disk'.zip, f.lho) = At(mount.archive, e.lho)]_vars
  BY CommitKeeps DEF KeptOf
<1>. QED
  BY <1>1, MapInvariant, ArchiveInvariant, PTL DEF Spec, MetadataKept

-----------------------------------------------------------------------------
(* Where the entries of a commit lie. *)

\* The file that a commit leaves, whose end record has the values themselves.
PlainLaid(zip, pieces, base) ==
  /\ CommitLaid(zip, pieces, base)
  /\ ~IsWide(LaidEnd(base, Body(pieces, Len(pieces)), PlacedRecords(base, pieces)))
  /\ Parse(zip).ok

\* Every commit that leaves values below the limits leaves one.
LEMMA PlainBelow ==
  ASSUME NEW zip, NEW pieces, NEW base, CommitLaid(zip, pieces, base), UnderLimits(zip)
  PROVE  PlainLaid(zip, pieces, base)
<1>1. PICK body, cd : body = Body(pieces, Len(pieces)) /\ cd = PlacedRecords(base, pieces)
  OBVIOUS
<1>2. LaidOver(zip, base, body, cd)
  BY <1>1 DEF CommitLaid
<1>3. ~IsWide(LaidEnd(base, body, cd))
  BY <1>2, FittingLaid
<1>4. Parse(zip).ok
  BY FittingOpens
<1>. QED
  BY <1>1, <1>3, <1>4 DEF PlainLaid

\* Its entries are those of the pieces, its directory is behind their cells.
PlainParses(zip, pieces, base) ==
  /\ IsSeq(Parse(zip).entries)
  /\ Len(Parse(zip).entries) = Len(pieces) /\ base \in Nat /\ Len(pieces) \in Nat
  /\ Parse(zip).dir.offset = base + Ends(pieces)[Len(pieces)]
  /\ Parse(zip).dir.size = Len(pieces)
  /\ Len(zip) = base + Ends(pieces)[Len(pieces)] + Len(pieces) + 1
  /\ EndsAre(pieces, base)
  /\ \A k \in 1..Len(pieces) :
       LET x == PlacedRecords(base, pieces)[k]
       IN Parse(zip).entries[k] = EntryOf(x, Widened(x)) /\ Widened(x) # NotWidened

\* That is what its parser makes of it.
LEMMA PlainIs ==
  ASSUME NEW zip, NEW pieces, NEW base, PlainLaid(zip, pieces, base)
  PROVE  PlainParses(zip, pieces, base)
<1>1. PICK m \in Nat : m = Len(pieces)
  BY DEF PlainLaid, CommitLaid, PiecesAre, IsSeq
<1>2. PICK body : body = Body(pieces, m)
  OBVIOUS
<1>3. PICK cd : cd = PlacedRecords(base, pieces)
  OBVIOUS
<1>4. LaidOver(zip, base, body, cd) /\ Len(cd) = m /\ ~IsWide(LaidEnd(base, body, cd))
      /\ base \in Nat /\ Kept(pieces) /\ PiecesAre(pieces)
  BY <1>1, <1>2, <1>3 DEF PlainLaid, CommitLaid
<1>5. /\ \A k \in 1..m : Readable(cd[k])
      /\ Parse(zip).entries = LaidEntries(cd) /\ Parse(zip).dir = LaidDir(base, body, cd)
  BY <1>4, LaidParses DEF PlainLaid
<1>6. EndsAre(pieces, base)
  BY <1>4, BodyGrows
<1>7. Ends(pieces)[m] = Len(body)
  <2>1. m \in 0..m
    OBVIOUS
  <2>. QED
    BY <1>1, <1>2, <2>1 DEF Ends
<1>8. Len(zip) = base + Len(body) + m + 1
  BY <1>4 DEF LaidOver
<1>9. Len(LaidEntries(cd)) = m /\ IsSeq(LaidEntries(cd))
  BY <1>4 DEF LaidEntries, IsSeq
<1>10. Parse(zip).dir.offset = base + Len(body) /\ Parse(zip).dir.size = m
  BY <1>4, <1>5 DEF LaidDir
<1>11. ASSUME NEW k \in 1..m
       PROVE  Parse(zip).entries[k] = EntryOf(cd[k], Widened(cd[k])) /\ Widened(cd[k]) # NotWidened
  <2>1. Readable(cd[k])
    BY <1>5
  <2>. QED
    BY <1>4, <1>5, <2>1 DEF LaidEntries, Readable
<1>. QED
  BY <1>1, <1>3, <1>4, <1>5, <1>6, <1>7, <1>8, <1>9, <1>10, <1>11 DEF PlainParses

\* The entry of a piece that was written has just its cells.
PieceSpans(zip, base, e, first, end) ==
  /\ e.lho = base + first /\ e.comp \in Nat /\ DataOffset(zip, e) # NoData
  /\ DataOffset(zip, e) \in Nat /\ DataOffset(zip, e) + e.comp = base + end

\* It does, whatever local header the piece has.
LEMMA PieceSpan ==
  ASSUME NEW zip, NEW pieces, NEW base, PlainLaid(zip, pieces, base),
         NEW k \in 1..Len(pieces), ~pieces[k].stays
  PROVE  PieceSpans(zip, base, Parse(zip).entries[k], Ends(pieces)[k - 1], Ends(pieces)[k])
<1>1. PlainParses(zip, pieces, base)
  BY PlainIs
<1>2. PICK m \in Nat, b \in Nat : m = Len(pieces) /\ b = base
  BY <1>1 DEF PlainParses
<1>3. PICK p : p = pieces[k]
  OBVIOUS
<1>4. PieceIs(p) /\ p # Refused /\ ~p.stays
  BY <1>3 DEF PlainLaid, CommitLaid, PiecesAre, Kept
<1>5. Fills(p.cells, p.record) /\ CdRecord(p.record)
  BY <1>4 DEF PieceIs
<1>6. PICK comp \in Nat, extra \in Nat :
        /\ extra = p.cells[1].extra /\ Len(p.cells) = 1 + extra + comp
        /\ p.cells[1].cell = "lfh" /\ CompIs(p.record, comp) /\ Len(p.cells) > 0
  BY <1>5 DEF Fills
<1>7. k \in 1..m /\ k - 1 \in 0..m /\ k \in 0..m /\ m \in 0..m /\ m \in k..m
  BY <1>2
<1>8. Grows(Ends(pieces), m)
  BY <1>1, <1>2 DEF PlainParses, EndsAre
<1>9. PICK off \in Nat, end \in Nat, last \in Nat :
        off = Ends(pieces)[k - 1] /\ end = Ends(pieces)[k] /\ last = Ends(pieces)[m]
  BY <1>7, <1>8 DEF Grows
<1>10. end = off + Len(p.cells)
  BY <1>1, <1>3, <1>9 DEF PlainParses, EndsAre
<1>11. end <= last
  BY <1>7, <1>8, <1>9, GrowsOrdered
<1>12. Len(zip) = b + last + m + 1
  BY <1>1, <1>2, <1>9 DEF PlainParses
<1>13. PICK x : x = PlacedRecords(base, pieces)[k]
  OBVIOUS
<1>14. x = RecordAt(p, b + off)
  BY <1>1, <1>2, <1>3, <1>9, <1>13 DEF PlainParses, EndsAre
<1>15. PICK at \in Nat : at = b + off
  OBVIOUS
<1>16. x = [p.record EXCEPT !.lho = at]
  BY <1>4, <1>14, <1>15 DEF RecordAt
<1>17. Widened(x) # NotWidened /\ Parse(zip).entries[k] = EntryOf(x, Widened(x))
  BY <1>1, <1>13 DEF PlainParses
<1>18. Widened(x)[2] = comp
  BY <1>6, <1>15, <1>16, <1>17 DEF CompIs
<1>19. PlacedIn(pieces, base, k, off)
  BY <1>1, <1>3, <1>9, <1>13, <1>14, <1>2 DEF PlainParses, EndsAre, PlacedIn
<1>20. base + off # U32Max /\ zip[base + off + 1] = p.cells[1]
  BY <1>3, <1>4, <1>19, PlaceFits DEF PlainLaid
<1>21. Widened(x)[3] = at
  <2>1. x.lho = at
    BY <1>5, <1>16 DEF CdRecord
  <2>. QED
    BY <1>2, <1>15, <1>17, <1>20, <2>1, WideIs
<1>22. PICK e : e = Parse(zip).entries[k]
  OBVIOUS
<1>23. e.lho = at /\ e.comp = comp
  BY <1>17, <1>18, <1>21, <1>22 DEF EntryOf
<1>24. PICK h : h = At(zip, at)
  OBVIOUS
<1>25. h = p.cells[1]
  <2>1. off + 1 <= end
    <3>1. end = off + (1 + extra + comp)
      BY <1>6, <1>10
    <3>. QED
      BY <3>1
  <2>2. off + 1 <= last
    BY <1>11, <2>1
  <2>3. at < b + last + m + 1
    BY <1>15, <2>2
  <2>4. at < Len(zip)
    BY <1>12, <2>3
  <2>. QED
    BY <1>2, <1>15, <1>20, <1>24, <2>4 DEF At
<1>26. at + 1 + extra + comp = b + end
  <2>1. end = off + (1 + extra + comp)
    BY <1>6, <1>10
  <2>. QED
    BY <1>15, <2>1
<1>27. ~(at + 1 + extra + comp > Len(zip))
  BY <1>11, <1>12, <1>26
<1>28. DataOffset(zip, e) = at + 1 + extra
  BY <1>6, <1>23, <1>24, <1>25, <1>27 DEF DataOffset
<1>29. at + 1 + extra \in Nat /\ at + 1 + extra # NoData
  BY DEF NoData
<1>. QED
  BY <1>2, <1>9, <1>15, <1>22, <1>23, <1>26, <1>28, <1>29 DEF PieceSpans

-----------------------------------------------------------------------------
(* The names of what a commit makes. *)

\* What each piece is made of: an entry of the archive, a created name, an alias.
InArchive(n) == \E e \in EntriesOf(mount.archive) : e.name = n
OfSource(mode, e, p) ==
  p # Refused => /\ p.record.name = e.name /\ overlay[e.name].kind \in {"none", "created"}
                 /\ p.stays => mode = "incremental" /\ p = InPlace(e)
OfCreated(n, p) ==
  p # Refused => /\ p.record.name = n /\ overlay[n].kind = "created" /\ ~InArchive(n) /\ ~p.stays
OfAlias(n, p) ==
  p # Refused => p.record.name = n /\ overlay[n].kind = "aliased" /\ ~p.stays

\* A piece that is made anew has the name that it is made for.
LEMMA PieceNamed ==
  /\ \A n, method, content :
       PieceOf(n, method, content) # Refused =>
         PieceOf(n, method, content).record.name = n /\ ~PieceOf(n, method, content).stays
  /\ \A zip, e, n :
       Copied(zip, e, n) # Refused => Copied(zip, e, n).record.name = n /\ ~Copied(zip, e, n).stays
<1>1. ASSUME NEW n, NEW method, NEW content, PieceOf(n, method, content) # Refused
      PROVE  PieceOf(n, method, content).record.name = n /\ ~PieceOf(n, method, content).stays
  <2>1. PICK stored : PieceOf(n, method, content) = Placed(n, method, content.bytes, stored)
    BY <1>1 DEF PieceOf
  <2>2. PICK r : r = Synth(n, method, content.bytes, stored)
    OBVIOUS
  <2>3. r.name = n
    BY <2>2 DEF Synth
  <2>4. PICK cells : PieceOf(n, method, content) = Piece(cells, r, FALSE)
    BY <2>1, <2>2 DEF Placed
  <2>. QED
    BY <2>3, <2>4 DEF Piece
<1>2. ASSUME NEW zip, NEW e, NEW n, Copied(zip, e, n) # Refused
      PROVE  Copied(zip, e, n).record.name = n /\ ~Copied(zip, e, n).stays
  <2>1. Copied(zip, e, n) = CopiedData(e, n, EntryData(zip, e))
    BY <1>2 DEF Copied
  <2>2. PICK s : s = Synth(n, e.method, e.crc, EntryData(zip, e))
    OBVIOUS
  <2>3. PICK r : r = [s EXCEPT !.uncomp = e.uncomp]
    OBVIOUS
  <2>4. s = [cell |-> "cdfh", name |-> n, method |-> e.method, flags |-> 0, crc |-> e.crc,
             comp |-> Len(EntryData(zip, e)), uncomp |-> Len(e.crc), lho |-> 0, z64 |-> <<>>,
             meta |-> "none"]
    BY <2>2 DEF Synth
  <2>5. r.name = n
    BY <2>3, <2>4
  <2>6. PICK cells : Copied(zip, e, n) = Piece(cells, r, FALSE)
    BY <2>1, <2>2, <2>3 DEF CopiedData
  <2>. QED
    BY <2>5, <2>6 DEF Piece
<1>. QED
  BY <1>1, <1>2

\* What an entry of the archive becomes.
LEMMA SourceNamed ==
  ASSUME CommitReady, NEW mode \in Modes, NEW e, EntryOk(e)
  PROVE  \/ SourcePieces(mode, e) = <<>>
         \/ \E p : SourcePieces(mode, e) = <<p>> /\ OfSource(mode, e, p)
<1>1. PICK n \in Names : n = e.name
  BY DEF EntryOk
<1>2. overlay[n].kind \in {"none", "tombstone", "created", "aliased"}
  BY DEF CommitReady, OwnInv
<1>3. CASE overlay[n].kind \in {"aliased", "tombstone"}
  BY <1>1, <1>3 DEF SourcePieces
<1>4. CASE overlay[n].kind = "created"
  <2>1. PICK p : p = CreatedPiece(n)
    OBVIOUS
  <2>2. SourcePieces(mode, e) = <<p>>
    BY <1>1, <1>4, <2>1 DEF SourcePieces
  <2>3. OfSource(mode, e, p)
    BY <1>1, <1>4, <2>1, PieceNamed DEF OfSource, CreatedPiece
  <2>. QED
    BY <2>2, <2>3
<1>5. CASE overlay[n].kind = "none"
  <2>1. PICK p : p = IF diff[n].dirty THEN RewrittenPiece(n, e) ELSE CleanPiece(mode, e)
    OBVIOUS
  <2>2. SourcePieces(mode, e) = <<p>>
    BY <1>1, <1>5, <2>1 DEF SourcePieces
  <2>3. CASE p = RewrittenPiece(n, e)
    <3>1. OfSource(mode, e, p)
      BY <1>1, <1>5, <2>3, PieceNamed DEF OfSource, RewrittenPiece
    <3>. QED
      BY <2>2, <3>1
  <2>4. CASE p = Copied(mount.archive, e, n)
    <3>1. OfSource(mode, e, p)
      BY <1>1, <1>5, <2>4, PieceNamed DEF OfSource
    <3>. QED
      BY <2>2, <3>1
  <2>5. CASE p = Verbatim(mount.archive, e)
    <3>1. ASSUME p # Refused PROVE p.record = e.record /\ p.stays = FALSE
      <4>1. PICK cells : p = Piece(cells, e.record, FALSE)
        BY <2>5, <3>1 DEF Verbatim
      <4>. QED
        BY <4>1 DEF Piece
    <3>2. e.record.name = e.name
      BY DEF EntryOk
    <3>3. OfSource(mode, e, p)
      BY <1>1, <1>5, <3>1, <3>2 DEF OfSource
    <3>. QED
      BY <2>2, <3>3
  <2>6. CASE mode = "incremental" /\ p = InPlace(e)
    <3>1. PICK r : r = [e.record EXCEPT !.lho = e.lho]
      OBVIOUS
    <3>2. r.name = e.name
      BY <3>1 DEF EntryOk, CdRecord
    <3>3. p # Refused => p = Piece(<<>>, r, TRUE)
      BY <2>6, <3>1 DEF InPlace
    <3>4. OfSource(mode, e, p)
      BY <1>1, <1>5, <2>6, <3>2, <3>3 DEF OfSource, Piece
    <3>. QED
      BY <2>2, <3>4
  <2>. QED
    BY <1>1, <2>1, <2>3, <2>4, <2>5, <2>6 DEF CleanPiece, Modes
<1>. QED
  BY <1>2, <1>3, <1>4, <1>5

\* What was created and what was renamed.
LEMMA OtherNamed ==
  ASSUME NEW n, NEW es, es = Parse(mount.archive).entries, IsSeq(es)
  PROVE  /\ \/ CreatedPieces(n, es) = <<>>
            \/ \E p : CreatedPieces(n, es) = <<p>> /\ OfCreated(n, p)
         /\ \/ AliasPieces(n, es) = <<>>
            \/ \E p : AliasPieces(n, es) = <<p>> /\ OfAlias(n, p)
<1>1. ASSUME CreatedPieces(n, es) # <<>>
      PROVE  \E p : CreatedPieces(n, es) = <<p>> /\ OfCreated(n, p)
  <2>1. PICK p : p = CreatedPiece(n)
    OBVIOUS
  <2>2. /\ CreatedPieces(n, es) = <<p>> /\ overlay[n].kind = "created"
        /\ \A i \in 1..Len(es) : es[i].name # n
    BY <1>1, <2>1 DEF CreatedPieces
  <2>3. ~InArchive(n)
    <3>. SUFFICES ASSUME NEW e \in EntriesOf(mount.archive), e.name = n PROVE FALSE
      BY DEF InArchive
    <3>1. PICK m \in Nat : m = Len(es) /\ es = [i \in 1..m |-> es[i]]
      BY DEF IsSeq
    <3>2. e \in {es[i] : i \in DOMAIN es}
      BY DEF EntriesOf, ToSet
    <3>3. PICK i \in 1..m : e = es[i]
      BY <3>1, <3>2
    <3>. QED
      BY <2>2, <3>1, <3>3
  <2>4. OfCreated(n, p)
    BY <2>1, <2>2, <2>3, PieceNamed DEF OfCreated, CreatedPiece
  <2>. QED
    BY <2>2, <2>4
<1>2. ASSUME AliasPieces(n, es) # <<>>
      PROVE  \E p : AliasPieces(n, es) = <<p>> /\ OfAlias(n, p)
  <2>1. PICK p : p = AliasPiece(n, es)
    OBVIOUS
  <2>2. AliasPieces(n, es) = <<p>> /\ overlay[n].kind = "aliased"
    BY <1>2, <2>1 DEF AliasPieces
  <2>3. p = Refused \/ \E e : p = RewrittenPiece(n, e) \/ p = Copied(mount.archive, e, n)
    BY <2>1 DEF AliasPiece, AliasOf
  <2>4. OfAlias(n, p)
    BY <2>2, <2>3, PieceNamed DEF OfAlias, RewrittenPiece
  <2>. QED
    BY <2>2, <2>4
<1>. QED
  BY <1>1, <1>2
\* No two pieces that are kept have the same name.
OnceEach(x) ==
  \A i, j \in 1..Len(x) :
    x[i] # Refused /\ x[j] # Refused /\ x[i].record.name = x[j].record.name => i = j

\* The pieces of the entries are drawn from those.
LEMMA SourcesDrawn ==
  ASSUME CommitReady, NEW mode \in Modes, NEW es, NEW m \in Nat, Len(es) = m,
         \A i \in 1..m : EntryOk(es[i]),
         NEW S, S = [i \in 1..m |-> SourcePieces(mode, es[i])], NEW x, x = FlattenSeq(S)
  PROVE  /\ Drawn(x, S, m)
         /\ \A n \in 1..m : \A p : S[n] = <<p>> => OfSource(mode, es[n], p)
<1>1. ASSUME NEW n \in 1..m
      PROVE  S[n] = <<>> \/ \E p : S[n] = <<p>> /\ OfSource(mode, es[n], p)
  <2>1. EntryOk(es[n])
    OBVIOUS
  <2>2. \/ SourcePieces(mode, es[n]) = <<>>
        \/ \E p : SourcePieces(mode, es[n]) = <<p>> /\ OfSource(mode, es[n], p)
    BY <2>1, SourceNamed
  <2>. QED
    BY <2>2
<1>2. Pre(S, m) = S
  BY DEF Pre
<1>3. \A n \in 1..m : S[n] = <<>> \/ \E p : S[n] = <<p>>
  BY <1>1
<1>4. Drawn(x, S, m)
  BY <1>2, <1>3, FlattenDrawn
<1>5. ASSUME NEW n \in 1..m, NEW p, S[n] = <<p>> PROVE OfSource(mode, es[n], p)
  <2>1. S[n] # <<>>
    <3>1. <<p>>[1] = p /\ Len(<<p>>) = 1 /\ Len(<<>>) = 0
      OBVIOUS
    <3>. QED
      BY <1>5, <3>1
  <2>2. PICK q : S[n] = <<q>> /\ OfSource(mode, es[n], q)
    BY <1>1, <2>1
  <2>3. p = <<p>>[1] /\ q = <<q>>[1]
    OBVIOUS
  <2>4. p = q
    BY <1>5, <2>2, <2>3
  <2>. QED
    BY <2>2, <2>4
<1>. QED
  BY <1>4, <1>5

\* The same for what was created and renamed, in the order of the overlay.
LEMMA OthersDrawn ==
  ASSUME NEW es, es = Parse(mount.archive).entries, IsSeq(es), NEW order, NEW m \in Nat,
         NEW C, C = [i \in 1..m |-> CreatedPieces(order[i], es)],
         NEW A, A = [i \in 1..m |-> AliasPieces(order[i], es)]
  PROVE  /\ Drawn(FlattenSeq(C), C, m) /\ Drawn(FlattenSeq(A), A, m)
         /\ \A n \in 1..m : \A p : /\ C[n] = <<p>> => OfCreated(order[n], p)
                                   /\ A[n] = <<p>> => OfAlias(order[n], p)
<1>1. ASSUME NEW n \in 1..m
      PROVE  /\ C[n] = <<>> \/ \E p : C[n] = <<p>> /\ OfCreated(order[n], p)
             /\ A[n] = <<>> \/ \E p : A[n] = <<p>> /\ OfAlias(order[n], p)
  <2>1. PICK o : o = order[n]
    OBVIOUS
  <2>2. /\ CreatedPieces(o, es) = <<>> \/ \E p : CreatedPieces(o, es) = <<p>> /\ OfCreated(o, p)
        /\ AliasPieces(o, es) = <<>> \/ \E p : AliasPieces(o, es) = <<p>> /\ OfAlias(o, p)
    BY OtherNamed
  <2>. QED
    BY <2>1, <2>2
<1>2. Pre(C, m) = C /\ Pre(A, m) = A
  BY DEF Pre
<1>3. /\ \A n \in 1..m : C[n] = <<>> \/ \E p : C[n] = <<p>>
      /\ \A n \in 1..m : A[n] = <<>> \/ \E p : A[n] = <<p>>
  BY <1>1
<1>4. Drawn(FlattenSeq(C), C, m) /\ Drawn(FlattenSeq(A), A, m)
  BY <1>2, <1>3, FlattenDrawn
<1>5. ASSUME NEW p PROVE <<p>> # <<>> /\ \A q : <<p>> = <<q>> => p = q
  <2>1. Len(<<p>>) = 1 /\ Len(<<>>) = 0 /\ <<p>>[1] = p
    OBVIOUS
  <2>2. ASSUME NEW q, <<p>> = <<q>> PROVE p = q
    <3>1. <<q>>[1] = q
      OBVIOUS
    <3>. QED
      BY <2>1, <2>2, <3>1
  <2>. QED
    BY <2>1, <2>2
<1>6. ASSUME NEW n \in 1..m, NEW p, C[n] = <<p>> PROVE OfCreated(order[n], p)
  BY <1>1, <1>5, <1>6
<1>7. ASSUME NEW n \in 1..m, NEW p, A[n] = <<p>> PROVE OfAlias(order[n], p)
  BY <1>1, <1>5, <1>7
<1>. QED
  BY <1>4, <1>6, <1>7

\* Two places in what was drawn come from two.
Apart(s, m, p, q) == \E n, o \in 1..m : n # o /\ s[n] = <<p>> /\ s[o] = <<q>>

\* Two that are drawn are drawn from different places.
LEMMA DrawnApart ==
  ASSUME NEW x, NEW s, NEW m, Drawn(x, s, m), NEW i \in 1..Len(x), NEW j \in 1..Len(x), i # j
  PROVE  Apart(s, m, x[i], x[j])
<1>1. PICK n \in 1..m : s[n] = <<x[i]>> /\ Len(FlattenSeq(Pre(s, n - 1))) = i - 1
  BY DEF Drawn
<1>2. PICK o \in 1..m : s[o] = <<x[j]>> /\ Len(FlattenSeq(Pre(s, o - 1))) = j - 1
  BY DEF Drawn
<1>3. i - 1 # j - 1
  <2>1. Len(x) \in Nat
    BY DEF Drawn, IsSeq
  <2>2. i \in Nat /\ j \in Nat
    BY <2>1
  <2>. QED
    BY <2>2
<1>4. n # o
  BY <1>1, <1>2, <1>3
<1>. QED
  BY <1>1, <1>2, <1>4 DEF Apart

\* Behind each other, when they share none.
LEMMA JoinOnce ==
  ASSUME NEW s, IsSeq(s), OnceEach(s), NEW t, IsSeq(t), OnceEach(t),
         \A i \in 1..Len(s), j \in 1..Len(t) :
           s[i] # Refused /\ t[j] # Refused => s[i].record.name # t[j].record.name
  PROVE  OnceEach(s \o t)
<1>1. PICK z : z = s \o t
  OBVIOUS
<1>2. PICK a \in Nat, b \in Nat : a = Len(s) /\ b = Len(t)
  BY DEF IsSeq
<1>3. Len(z) = a + b /\ (\A i \in 1..a : z[i] = s[i]) /\ \A i \in 1..b : z[a + i] = t[i]
  BY <1>1, <1>2, JoinIs DEF JoinOf
<1>4. ASSUME NEW i \in 1..(a + b)
      PROVE  (i \in 1..a /\ z[i] = s[i]) \/ \E k \in 1..b : i = a + k /\ z[i] = t[k]
  <2>1. CASE i <= a
    BY <1>3, <2>1
  <2>2. CASE ~(i <= a)
    <3>1. PICK k \in 1..b : i = a + k
      <4>1. i - a \in 1..b /\ i = a + (i - a)
        BY <2>2
      <4>. QED
        BY <4>1
    <3>. QED
      BY <1>3, <3>1
  <2>. QED
    BY <2>1, <2>2
<1>5. ASSUME NEW i \in 1..(a + b), NEW j \in 1..(a + b), z[i] # Refused, z[j] # Refused,
             z[i].record.name = z[j].record.name
      PROVE  i = j
  <2>1. CASE i \in 1..a /\ z[i] = s[i] /\ j \in 1..a /\ z[j] = s[j]
    BY <1>2, <1>5, <2>1 DEF OnceEach
  <2>2. CASE (\E k \in 1..b : i = a + k /\ z[i] = t[k]) /\ \E k \in 1..b : j = a + k /\ z[j] = t[k]
    <3>1. PICK k \in 1..b, l \in 1..b : i = a + k /\ z[i] = t[k] /\ j = a + l /\ z[j] = t[l]
      BY <2>2
    <3>2. k = l
      BY <1>2, <1>5, <3>1 DEF OnceEach
    <3>. QED
      BY <3>1, <3>2
  <2>3. CASE (i \in 1..a /\ z[i] = s[i]) /\ \E k \in 1..b : j = a + k /\ z[j] = t[k]
    BY <1>2, <1>5, <2>3
  <2>4. CASE (j \in 1..a /\ z[j] = s[j]) /\ \E k \in 1..b : i = a + k /\ z[i] = t[k]
    BY <1>2, <1>5, <2>4
  <2>. QED
    BY <1>4, <2>1, <2>2, <2>3, <2>4
<1>. QED
  BY <1>1, <1>3, <1>5 DEF OnceEach
\* An element of two sequences behind each other is of one of them.
LEMMA JoinFrom ==
  ASSUME NEW s, IsSeq(s), NEW t, IsSeq(t), NEW i \in 1..Len(s \o t)
  PROVE  \/ i \in 1..Len(s) /\ (s \o t)[i] = s[i]
         \/ \E k \in 1..Len(t) : (s \o t)[i] = t[k]
<1>1. PICK z : z = s \o t
  OBVIOUS
<1>2. PICK a \in Nat, b \in Nat : a = Len(s) /\ b = Len(t)
  BY DEF IsSeq
<1>3. Len(z) = a + b /\ (\A k \in 1..a : z[k] = s[k]) /\ \A k \in 1..b : z[a + k] = t[k]
  BY <1>1, <1>2, JoinIs DEF JoinOf
<1>4. i \in 1..(a + b)
  BY <1>1, <1>3
<1>5. CASE i <= a
  BY <1>1, <1>2, <1>3, <1>4, <1>5
<1>6. CASE ~(i <= a)
  <2>1. PICK k \in 1..b : i = a + k
    <3>1. i - a \in 1..b /\ i = a + (i - a)
      BY <1>4, <1>6
    <3>. QED
      BY <3>1
  <2>. QED
    BY <1>1, <1>2, <1>3, <2>1
<1>. QED
  BY <1>5, <1>6

\* The pieces that stay are entries of the archive, two of them different ones.
StayOnce(mode, es, x) ==
  /\ \A i \in 1..Len(x) : x[i] # Refused /\ x[i].stays =>
       mode = "incremental" /\ \E n \in 1..Len(es) : x[i] = InPlace(es[n])
  /\ \A i, j \in 1..Len(x) :
       x[i] # Refused /\ x[i].stays /\ x[j] # Refused /\ x[j].stays /\ i # j =>
         \E n, o \in 1..Len(es) : n # o /\ x[i] = InPlace(es[n]) /\ x[j] = InPlace(es[o])

\* What a commit makes keeps names different, and no entry stays twice.
LEMMA BuildOnce ==
  ASSUME CommitReady, NEW mode \in Modes, NEW order \in Orders
  PROVE  /\ NamesDiffer(mount.archive) => OnceEach(BuildPieces(mode, order))
         /\ StayOnce(mode, Parse(mount.archive).entries, BuildPieces(mode, order))
<1>1. PICK S, C, A : BuildParts(mode, order, S, C, A)
  BY BuildPartsAre
<1>2. PICK es : es = Parse(mount.archive).entries
  OBVIOUS
<1>3. PICK x, y, w : x = FlattenSeq(S) /\ y = FlattenSeq(C) /\ w = FlattenSeq(A)
  OBVIOUS
<1>4. PICK z : z = BuildPieces(mode, order)
  BY ZenonT(40)
<1>5. z = (x \o y) \o w /\ IsSeq(x) /\ IsSeq(y) /\ IsSeq(w) /\ IsSeq(es)
  <2>1. /\ IsSeq(Parse(mount.archive).entries)
        /\ PiecesAre(FlattenSeq(S)) /\ PiecesAre(FlattenSeq(C)) /\ PiecesAre(FlattenSeq(A))
        /\ BuildPieces(mode, order) = (FlattenSeq(S) \o FlattenSeq(C)) \o FlattenSeq(A)
    BY ZenonT(40), <1>1 DEF BuildParts
  <2>2. IsSeq(es)
    BY Zenon, <1>2, <2>1
  <2>3. IsSeq(x) /\ IsSeq(y) /\ IsSeq(w)
    BY Zenon, <1>3, <2>1 DEF PiecesAre
  <2>4. z = (x \o y) \o w
    BY ZenonT(40), <1>3, <1>4, <2>1
  <2>. QED
    BY Zenon, <2>2, <2>3, <2>4
<1>6. PICK m \in Nat, q \in Nat : m = Len(es) /\ q = Len(order)
  BY <1>1, <1>5 DEF BuildParts, IsSeq
<1>7. S = [i \in 1..m |-> SourcePieces(mode, es[i])] /\ \A i \in 1..m : EntryOk(es[i])
  BY <1>1, <1>2, <1>6 DEF BuildParts
<1>8. Drawn(x, S, m) /\ \A n \in 1..m : \A p : S[n] = <<p>> => OfSource(mode, es[n], p)
  BY <1>3, <1>6, <1>7, SourcesDrawn
<1>9. /\ C = [i \in 1..q |-> CreatedPieces(order[i], es)]
      /\ A = [i \in 1..q |-> AliasPieces(order[i], es)]
  BY <1>1, <1>2, <1>6 DEF BuildParts
<1>10. /\ Drawn(y, C, q) /\ Drawn(w, A, q)
       /\ \A n \in 1..q : \A p : /\ C[n] = <<p>> => OfCreated(order[n], p)
                                 /\ A[n] = <<p>> => OfAlias(order[n], p)
  BY <1>2, <1>3, <1>5, <1>9, OthersDrawn
<1>11. \A n, o \in 1..q : order[n] = order[o] => n = o
  <2>1. DOMAIN order = 1..q
    <3>1. Cardinality(Names) \in Nat
      BY ZipAssumption, FS_CardinalityType
    <3>2. order \in [1..Cardinality(Names) -> Names]
      BY DEF Orders
    <3>. QED
      BY <1>6, <3>1, <3>2
  <2>2. \A n, o \in DOMAIN order : order[n] = order[o] => n = o
    BY DEF Orders
  <2>. QED
    BY <2>1, <2>2
<1>12. ASSUME NEW k \in 1..Len(x) PROVE \E n \in 1..m : OfSource(mode, es[n], x[k])
  BY <1>8 DEF Drawn
<1>13. ASSUME NEW k \in 1..Len(y) PROVE \E n : OfCreated(n, y[k])
  BY <1>10 DEF Drawn
<1>14. ASSUME NEW k \in 1..Len(w) PROVE \E n : OfAlias(n, w[k])
  BY <1>10 DEF Drawn
<1>15. ASSUME NEW n \in 1..m PROVE InArchive(es[n].name)
  <2>1. es = [i \in 1..m |-> es[i]]
    BY <1>5, <1>6 DEF IsSeq
  <2>2. es[n] \in {es[i] : i \in DOMAIN es}
    BY <2>1
  <2>3. es[n] \in EntriesOf(mount.archive)
    BY <1>2, <2>2 DEF EntriesOf, ToSet
  <2>. QED
    BY <2>3 DEF InArchive
<1>16. ASSUME NamesDiffer(mount.archive) PROVE OnceEach(z)
  <2>1. \A n, o \in 1..m : es[n].name = es[o].name => n = o
    BY <1>2, <1>6, <1>16 DEF NamesDiffer
  <2>2. OnceEach(x)
    <3>. SUFFICES ASSUME NEW i \in 1..Len(x), NEW j \in 1..Len(x), x[i] # Refused, x[j] # Refused,
                         x[i].record.name = x[j].record.name, i # j
                  PROVE  FALSE
      BY DEF OnceEach
    <3>0. Drawn(x, S, m) /\ i # j
      BY <1>8
    <3>3. Apart(S, m, x[i], x[j])
      BY <3>0, DrawnApart
    <3>1. PICK n, o \in 1..m : n # o /\ S[n] = <<x[i]>> /\ S[o] = <<x[j]>>
      BY <3>3 DEF Apart
    <3>2. OfSource(mode, es[n], x[i]) /\ OfSource(mode, es[o], x[j])
      BY <1>8, <3>1
    <3>. QED
      BY <2>1, <3>1, <3>2 DEF OfSource
  <2>3. OnceEach(y)
    <3>. SUFFICES ASSUME NEW i \in 1..Len(y), NEW j \in 1..Len(y), y[i] # Refused, y[j] # Refused,
                         y[i].record.name = y[j].record.name, i # j
                  PROVE  FALSE
      BY DEF OnceEach
    <3>0. Drawn(y, C, q) /\ i # j
      BY <1>10
    <3>3. Apart(C, q, y[i], y[j])
      BY <3>0, DrawnApart
    <3>1. PICK n, o \in 1..q : n # o /\ C[n] = <<y[i]>> /\ C[o] = <<y[j]>>
      BY <3>3 DEF Apart
    <3>2. OfCreated(order[n], y[i]) /\ OfCreated(order[o], y[j])
      BY <1>10, <3>1
    <3>. QED
      BY <1>11, <3>1, <3>2 DEF OfCreated
  <2>4. OnceEach(w)
    <3>. SUFFICES ASSUME NEW i \in 1..Len(w), NEW j \in 1..Len(w), w[i] # Refused, w[j] # Refused,
                         w[i].record.name = w[j].record.name, i # j
                  PROVE  FALSE
      BY DEF OnceEach
    <3>0. Drawn(w, A, q) /\ i # j
      BY <1>10
    <3>3. Apart(A, q, w[i], w[j])
      BY <3>0, DrawnApart
    <3>1. PICK n, o \in 1..q : n # o /\ A[n] = <<w[i]>> /\ A[o] = <<w[j]>>
      BY <3>3 DEF Apart
    <3>2. OfAlias(order[n], w[i]) /\ OfAlias(order[o], w[j])
      BY <1>10, <3>1
    <3>. QED
      BY <1>11, <3>1, <3>2 DEF OfAlias
  <2>5. ASSUME NEW i \in 1..Len(x), NEW j \in 1..Len(y), x[i] # Refused, y[j] # Refused
        PROVE  x[i].record.name # y[j].record.name
    <3>1. PICK n \in 1..m : OfSource(mode, es[n], x[i])
      BY <1>12
    <3>2. PICK o : OfCreated(o, y[j])
      BY <1>13
    <3>. QED
      BY <1>15, <2>5, <3>1, <3>2 DEF OfSource, OfCreated
  <2>6. OnceEach(x \o y)
    BY <1>5, <2>2, <2>3, <2>5, JoinOnce
  <2>7. PICK v : v = x \o y
    OBVIOUS
  <2>8. IsSeq(v)
    BY <1>5, <2>7, JoinIs DEF JoinOf
  <2>9. ASSUME NEW i \in 1..Len(v), NEW j \in 1..Len(w), v[i] # Refused, w[j] # Refused
        PROVE  v[i].record.name # w[j].record.name
    <3>1. PICK o : OfAlias(o, w[j])
      BY <1>14
    <3>2. overlay[w[j].record.name].kind = "aliased"
      BY <2>9, <3>1 DEF OfAlias
    <3>3. (\E k \in 1..Len(x) : v[i] = x[k]) \/ \E k \in 1..Len(y) : v[i] = y[k]
      BY <1>5, <2>7, JoinFrom
    <3>4. overlay[v[i].record.name].kind \in {"none", "created"}
      <4>1. CASE \E k \in 1..Len(x) : v[i] = x[k]
        BY <1>12, <2>9, <4>1 DEF OfSource
      <4>2. CASE \E k \in 1..Len(y) : v[i] = y[k]
        BY <1>13, <2>9, <4>2 DEF OfCreated
      <4>. QED
        BY <3>3, <4>1, <4>2
    <3>. QED
      BY <3>2, <3>4
  <2>. QED
    BY <1>5, <2>4, <2>6, <2>7, <2>8, <2>9, JoinOnce
<1>17. ASSUME NEW i \in 1..Len(z), z[i] # Refused, z[i].stays
       PROVE  i \in 1..Len(x) /\ z[i] = x[i]
  <2>1. PICK v : v = x \o y
    OBVIOUS
  <2>2. IsSeq(v)
    BY <1>5, <2>1, JoinIs DEF JoinOf
  <2>3. z = v \o w
    BY <1>5, <2>1
  <2>4. ~\E k \in 1..Len(w) : z[i] = w[k]
    BY <1>14, <1>17 DEF OfAlias
  <2>5. i \in 1..Len(v) /\ z[i] = v[i]
    BY SMTT(40), <1>5, <2>2, <2>3, <2>4, JoinFrom
  <2>6. ~\E k \in 1..Len(y) : v[i] = y[k]
    BY <1>13, <1>17, <2>5 DEF OfCreated
  <2>. QED
    BY <1>5, <2>1, <2>5, <2>6, JoinFrom
<1>18. ASSUME NEW i \in 1..Len(z), z[i] # Refused, z[i].stays
       PROVE  mode = "incremental" /\ \E n \in 1..m : z[i] = InPlace(es[n])
  BY <1>12, <1>17, <1>18 DEF OfSource
<1>19. ASSUME NEW i \in 1..Len(z), NEW j \in 1..Len(z), z[i] # Refused, z[i].stays,
              z[j] # Refused, z[j].stays, i # j
       PROVE  \E n, o \in 1..m : n # o /\ z[i] = InPlace(es[n]) /\ z[j] = InPlace(es[o])
  <2>1. i \in 1..Len(x) /\ z[i] = x[i] /\ j \in 1..Len(x) /\ z[j] = x[j]
    BY <1>17, <1>19
  <2>5. Drawn(x, S, m) /\ i # j
    BY <1>8, <1>19
  <2>6. Apart(S, m, x[i], x[j])
    BY <2>1, <2>5, DrawnApart
  <2>2. PICK n, o \in 1..m : n # o /\ S[n] = <<x[i]>> /\ S[o] = <<x[j]>>
    BY <2>6 DEF Apart
  <2>3. OfSource(mode, es[n], x[i]) /\ OfSource(mode, es[o], x[j])
    BY <1>8, <2>2
  <2>4. x[i] = InPlace(es[n]) /\ x[j] = InPlace(es[o])
    BY <1>19, <2>1, <2>3 DEF OfSource
  <2>. QED
    BY <2>1, <2>2, <2>4
<1>20. StayOnce(mode, es, z)
  BY <1>6, <1>18, <1>19 DEF StayOnce
<1>. QED
  BY <1>2, <1>4, <1>16, <1>20

-----------------------------------------------------------------------------
(* The layout of a commit. *)

\* Of two pieces that are written the first ends where the second has not begun.
LEMMA SpanOf ==
  ASSUME NEW zip, NEW pieces, NEW base, PlainLaid(zip, pieces, base),
         NEW k \in 1..Len(pieces), ~pieces[k].stays, NEW e, e = Parse(zip).entries[k]
  PROVE  /\ DataOffset(zip, e) # NoData
         /\ Extent(zip, e) = (base + Ends(pieces)[k - 1] + 1)..(base + Ends(pieces)[k])
<1>1. PieceSpans(zip, base, e, Ends(pieces)[k - 1], Ends(pieces)[k])
  BY PieceSpan
<1>. QED
  BY <1>1 DEF PieceSpans, Extent

\* Where the pieces lie, in numbers.
SpansFit(pieces, base) ==
  /\ base \in Nat /\ Len(pieces) \in Nat /\ Ends(pieces)[Len(pieces)] \in Nat
  /\ \A k \in 1..Len(pieces) :
       /\ Ends(pieces)[k - 1] \in Nat /\ Ends(pieces)[k] \in Nat
       /\ Ends(pieces)[k] <= Ends(pieces)[Len(pieces)]
  /\ \A k, l \in 1..Len(pieces) : k < l => Ends(pieces)[k] <= Ends(pieces)[l - 1]

\* They are, in every file that a commit leaves.
LEMMA SpansAre ==
  ASSUME NEW zip, NEW pieces, NEW base, PlainLaid(zip, pieces, base) PROVE SpansFit(pieces, base)
<1>1. PlainParses(zip, pieces, base)
  BY PlainIs
<1>2. PICK m \in Nat : m = Len(pieces)
  BY <1>1 DEF PlainParses
<1>3. PICK f : f = Ends(pieces)
  OBVIOUS
<1>4. Grows(f, m)
  BY <1>1, <1>2, <1>3 DEF PlainParses, EndsAre
<1>5. \A k \in 0..m : f[k] \in Nat
  BY <1>4 DEF Grows
<1>6. ASSUME NEW k \in 1..m PROVE f[k - 1] \in Nat /\ f[k] \in Nat /\ f[k] <= f[m]
  <2>1. k - 1 \in 0..m /\ k \in 0..m /\ m \in k..m
    OBVIOUS
  <2>. QED
    BY <1>4, <1>5, <2>1, GrowsOrdered
<1>7. ASSUME NEW k \in 1..m, NEW l \in 1..m, k < l PROVE f[k] <= f[l - 1]
  <2>1. k \in 0..m /\ l - 1 \in k..m
    BY <1>7
  <2>. QED
    BY <1>4, <2>1, GrowsOrdered
<1>8. m \in 0..m
  OBVIOUS
<1>. QED
  BY <1>1, <1>2, <1>3, <1>5, <1>6, <1>7, <1>8 DEF SpansFit, PlainParses

\* Pieces that are written lie apart, behind the base and before the directory.
LEMMA WrittenApart ==
  ASSUME NEW zip, NEW pieces, NEW base, PlainLaid(zip, pieces, base),
         NEW k \in 1..Len(pieces), ~pieces[k].stays, NEW e, e = Parse(zip).entries[k]
  PROVE  /\ \A c \in Extent(zip, e) : c \in Nat /\ c > base /\ c <= Parse(zip).dir.offset
         /\ \A l \in 1..Len(pieces) \ {k} :
              ~pieces[l].stays => Extent(zip, e) \cap Extent(zip, Parse(zip).entries[l]) = {}
<1>1. SpansFit(pieces, base) /\ PlainParses(zip, pieces, base)
  BY SpansAre, PlainIs
<1>2. PICK a \in Nat, b \in Nat, c \in Nat, last \in Nat :
        /\ a = base /\ b = Ends(pieces)[k - 1] /\ c = Ends(pieces)[k]
        /\ last = Ends(pieces)[Len(pieces)] /\ c <= last
  BY <1>1 DEF SpansFit
<1>3. Extent(zip, e) = (a + b + 1)..(a + c)
  BY <1>2, SpanOf
<1>4. Parse(zip).dir.offset = a + last
  BY <1>1, <1>2 DEF PlainParses
<1>5. ASSUME NEW x \in Extent(zip, e) PROVE x \in Nat /\ x > base /\ x <= Parse(zip).dir.offset
  <2>1. x \in (a + b + 1)..(a + c)
    BY <1>3
  <2>2. c <= last
    BY <1>2
  <2>3. x \in Nat /\ x > a /\ x <= a + last
    BY <2>1, <2>2
  <2>. QED
    BY <1>2, <1>4, <2>3
<1>6. ASSUME NEW l \in 1..Len(pieces) \ {k}, ~pieces[l].stays
      PROVE  Extent(zip, e) \cap Extent(zip, Parse(zip).entries[l]) = {}
  <2>1. PICK d \in Nat, f \in Nat : d = Ends(pieces)[l - 1] /\ f = Ends(pieces)[l]
    BY <1>1 DEF SpansFit
  <2>0. PICK g : g = Parse(zip).entries[l]
    OBVIOUS
  <2>2. Extent(zip, g) = (a + d + 1)..(a + f)
    BY SMTT(40), <1>2, <1>6, <2>0, <2>1, SpanOf
  <2>3. c <= d \/ f <= b
    <3>1. k \in 1..Len(pieces) /\ l \in 1..Len(pieces) /\ k # l /\ Len(pieces) \in Nat
      BY <1>1 DEF SpansFit
    <3>2. k < l \/ l < k
      BY <3>1
    <3>. QED
      BY <1>1, <1>2, <2>1, <3>2 DEF SpansFit
  <2>4. (a + b + 1)..(a + c) \cap (a + d + 1)..(a + f) = {}
    BY <2>3
  <2>. QED
    BY <1>3, <2>0, <2>2, <2>4
<1>. QED
  BY <1>5, <1>6
\* A FULL commit leaves its entries apart, and nothing else.
LEMMA FullApart ==
  ASSUME NEW zip, NEW pieces, NEW base, PlainLaid(zip, pieces, base), base = 0,
         \A k \in 1..Len(pieces) : ~pieces[k].stays
  PROVE  LaidApart(zip) /\ NothingElse(zip)
<1>1. SpansFit(pieces, base) /\ PlainParses(zip, pieces, base)
  BY SpansAre, PlainIs
<1>0. PICK es : es = Parse(zip).entries
  OBVIOUS
<1>2. PICK m \in Nat : m = Len(pieces) /\ es = Parse(zip).entries /\ Len(es) = m
  BY <1>0, <1>1 DEF SpansFit, PlainParses
<1>3. PICK last \in Nat : last = Ends(pieces)[m] /\ Parse(zip).dir.offset = last
  <2>1. PICK n \in Nat : n = Ends(pieces)[m]
    BY <1>1, <1>2 DEF SpansFit
  <2>2. Parse(zip).dir.offset = 0 + n
    BY <1>1, <1>2, <2>1 DEF PlainParses
  <2>. QED
    BY <2>1, <2>2
<1>4. ASSUME NEW i \in 1..m
      PROVE  /\ DataOffset(zip, es[i]) # NoData /\ Extent(zip, es[i]) \subseteq 1..last
             /\ \A j \in 1..m \ {i} : Extent(zip, es[i]) \cap Extent(zip, es[j]) = {}
  <2>1. PICK e : e = es[i]
    OBVIOUS
  <2>5. i \in 1..Len(pieces) /\ ~pieces[i].stays /\ e = Parse(zip).entries[i]
    BY <1>2, <2>1
  <2>6. /\ \A c \in Extent(zip, e) : c \in Nat /\ c > base /\ c <= Parse(zip).dir.offset
        /\ \A j \in 1..Len(pieces) \ {i} :
             ~pieces[j].stays => Extent(zip, e) \cap Extent(zip, Parse(zip).entries[j]) = {}
    BY <2>5, WrittenApart
  <2>2. /\ \A c \in Extent(zip, e) : c \in Nat /\ c > base /\ c <= last
        /\ \A j \in 1..m \ {i} : Extent(zip, e) \cap Extent(zip, es[j]) = {}
    BY <1>2, <1>3, <2>6
  <2>3. DataOffset(zip, e) # NoData
    BY <1>2, <2>1, SpanOf
  <2>4. Extent(zip, e) \subseteq 1..last
    BY <2>2
  <2>. QED
    BY <2>1, <2>2, <2>3, <2>4
<1>5. LaidApart(zip)
  BY <1>2, <1>3, <1>4 DEF LaidApart
<1>6. ASSUME NEW c \in 1..last PROVE \E e \in ToSet(es) : c \in Extent(zip, e)
  <2>1. PICK f : f = Ends(pieces)
    OBVIOUS
  <2>2. Grows(f, m) /\ c \in 1..f[m]
    BY <1>1, <1>2, <1>3, <2>1 DEF PlainParses, EndsAre
  <2>3. PICK j \in 1..m : f[j - 1] < c /\ c <= f[j]
    BY <2>2, GrowsCover
  <2>4. PICK e : e = es[j]
    OBVIOUS
  <2>5. Extent(zip, e) = (base + f[j - 1] + 1)..(base + f[j])
    BY <1>2, <2>1, <2>3, <2>4, SpanOf
  <2>6. PICK a \in Nat, b \in Nat : a = f[j - 1] /\ b = f[j]
    BY <1>1, <1>2, <2>1, <2>3 DEF SpansFit
  <2>7. c \in (0 + a + 1)..(0 + b)
    BY <2>3, <2>6
  <2>8. c \in Extent(zip, e)
    BY <2>5, <2>6, <2>7
  <2>9. e \in ToSet(es)
    <3>1. j \in DOMAIN es
      BY <1>1, <1>2 DEF PlainParses, IsSeq
    <3>. QED
      BY <2>4, <3>1 DEF ToSet
  <2>. QED
    BY <2>8, <2>9
<1>7. NothingElse(zip)
  BY <1>2, <1>3, <1>6 DEF NothingElse
<1>. QED
  BY <1>5, <1>7
\* The record of a piece that stays is that of its entry, at the place of that one.
LEMMA StayingRecord ==
  ASSUME NEW e, EntryOk(e), NEW p, p = InPlace(e), p # Refused, NEW off,
         NEW x, x = RecordAt(p, off)
  PROVE  x = [e.record EXCEPT !.lho = e.lho] /\ p.stays
<1>1. PICK y : y = [e.record EXCEPT !.lho = e.lho]
  OBVIOUS
<1>2. p = Piece(<<>>, y, TRUE)
  BY <1>1 DEF InPlace
<1>3. p.record = y /\ p.stays
  BY <1>2 DEF Piece
<1>4. x = [y EXCEPT !.lho = y.lho]
  BY <1>3 DEF RecordAt
<1>5. CdRecord(y)
  BY <1>1, RecordMoved DEF EntryOk
<1>6. x = y
  BY <1>4, <1>5 DEF CdRecord
<1>. QED
  BY <1>1, <1>3, <1>6

\* An entry that stays has its cells where it had them.
LEMMA StayingSpan ==
  ASSUME NEW zip, NEW pieces, NEW base, PlainLaid(zip, pieces, base),
         NEW old, Blocks(old), base = Len(old), \A i \in 1..base : zip[i] = old[i],
         NEW e, EntryOk(e), NEW k \in 1..Len(pieces), pieces[k] = InPlace(e),
         NEW f, f = Parse(zip).entries[k], DataOffset(old, e) # NoData
  PROVE  /\ f.lho = e.lho /\ f.comp = e.comp
         /\ DataOffset(zip, f) = DataOffset(old, e) /\ DataOffset(zip, f) # NoData
         /\ Extent(zip, f) = Extent(old, e)
         /\ \A c \in Extent(zip, f) : c \in Nat /\ c > 0 /\ c <= base
<1>1. PlainParses(zip, pieces, base)
  BY PlainIs
<1>2. PICK x : x = PlacedRecords(base, pieces)[k]
  OBVIOUS
<1>3. x = RecordAt(pieces[k], base + Ends(pieces)[k - 1])
  BY <1>1, <1>2 DEF PlainParses, EndsAre
<1>4. pieces[k] # Refused
  BY DEF PlainLaid, CommitLaid, Kept
<1>5. x = [e.record EXCEPT !.lho = e.lho]
  BY <1>3, <1>4, StayingRecord
<1>6. f = EntryOf(x, Widened(x)) /\ Widened(x) # NotWidened
  BY <1>1, <1>2 DEF PlainParses
<1>7. PICK at \in Nat, comp \in Nat : at = e.lho /\ comp = e.comp
  BY DEF EntryOk
<1>8. f.lho = at
  <2>1. x = [e.record EXCEPT !.lho = at] /\ (at # U32Max \/ at = e.lho) /\ f = EntryOf(x, Widened(x))
    BY <1>5, <1>6, <1>7
  <2>2. EntryOk(e) /\ at \in Nat
    OBVIOUS
  <2>3. f.lho = at /\ [f.record EXCEPT !.lho = 0] = [e.record EXCEPT !.lho = 0]
    BY ONLY <2>1, <2>2, MovedEntry
  <2>. QED
    BY <2>3
<1>9. f.comp = comp
  <2>1. PICK r : r = e.record
    OBVIOUS
  <2>2. CdRecord(r) /\ Widened(r) # NotWidened /\ comp = Widened(r)[2]
    BY <1>7, <2>1 DEF EntryOk
  <2>3. CompIs(r, comp)
    BY <2>2, CompMoved
  <2>4. Widened(x)[2] = comp
    BY <1>5, <1>6, <1>7, <2>1, <2>3 DEF CompIs
  <2>. QED
    BY <1>6, <2>4 DEF EntryOf
<1>10. PICK d \in Nat : d = DataOffset(old, e) /\ d + comp <= base /\ at < d
  BY <1>7, DataOffsetIs
<1>11. PICK n \in Nat : n = Len(zip) /\ base <= n
  <2>1. SpansFit(pieces, base)
    BY SpansAre
  <2>2. PICK b \in Nat, last \in Nat, m \in Nat :
          b = base /\ last = Ends(pieces)[Len(pieces)] /\ m = Len(pieces)
    BY <2>1 DEF SpansFit
  <2>3. Len(zip) = b + last + m + 1
    BY <1>1, <2>2 DEF PlainParses
  <2>4. b + last + m + 1 \in Nat /\ b <= b + last + m + 1
    OBVIOUS
  <2>. QED
    BY <2>2, <2>3, <2>4
<1>12. base \in Nat
  BY <1>1 DEF PlainParses
<1>13. at < base /\ at < n /\ at + 1 \in 1..base
  BY <1>10, <1>11, <1>12
<1>14. PICK h : h = At(old, at)
  OBVIOUS
<1>15. At(zip, at) = h
  <2>1. At(old, at) = old[at + 1] /\ At(zip, at) = zip[at + 1]
    BY <1>11, <1>13 DEF At
  <2>. QED
    BY <1>13, <1>14, <2>1
<1>16. h.cell = "lfh" /\ d = at + 1 + h.extra
  BY <1>7, <1>10, <1>14 DEF DataOffset
<1>17. ~(at + 1 + h.extra + comp > n)
  <2>1. ~(d + comp > n)
    BY <1>10, <1>11, <1>12
  <2>. QED
    BY <1>16, <2>1
<1>18. DataOffset(zip, f) = d
  BY <1>8, <1>9, <1>11, <1>15, <1>16, <1>17 DEF DataOffset
<1>19. Extent(zip, f) = (at + 1)..(d + comp) /\ Extent(old, e) = (at + 1)..(d + comp)
  BY <1>7, <1>8, <1>9, <1>10, <1>18 DEF Extent
<1>20. ASSUME NEW c \in (at + 1)..(d + comp) PROVE c \in Nat /\ c > 0 /\ c <= base
  <2>1. c \in Nat /\ c > 0 /\ c <= d + comp
    OBVIOUS
  <2>. QED
    BY <1>10, <1>12, <2>1
<1>. QED
  BY <1>7, <1>8, <1>9, <1>10, <1>18, <1>19, <1>20

\* What a commit that appends adds to an archive whose entries lie apart.
LEMMA AppendedApart ==
  ASSUME NEW zip, NEW pieces, NEW base, PlainLaid(zip, pieces, base),
         NEW old, Blocks(old), base = Len(old), \A i \in 1..base : zip[i] = old[i],
         NEW es, es = Parse(old).entries, \A i \in 1..Len(es) : EntryOk(es[i]),
         NEW mode, StayOnce(mode, es, pieces), LaidApart(old)
  PROVE  LaidApart(zip)
<1>1. SpansFit(pieces, base) /\ PlainParses(zip, pieces, base)
  BY SpansAre, PlainIs
<1>0. PICK fs : fs = Parse(zip).entries
  OBVIOUS
<1>2. PICK m \in Nat : m = Len(pieces) /\ fs = Parse(zip).entries /\ Len(fs) = m
  BY <1>0, <1>1 DEF SpansFit, PlainParses
<1>3. PICK top : top = Parse(zip).dir.offset
  OBVIOUS
<1>4. top \in Nat /\ base <= top /\ base \in Nat
  <2>1. PICK b \in Nat, last \in Nat : b = base /\ last = Ends(pieces)[Len(pieces)]
    BY <1>1 DEF SpansFit
  <2>2. top = b + last
    BY <1>1, <1>3, <2>1 DEF PlainParses
  <2>. QED
    BY <2>1, <2>2
<1>5. \A i \in 1..m : pieces[i] # Refused
  BY <1>2 DEF PlainLaid, CommitLaid, Kept
<1>6. ASSUME NEW n \in 1..Len(es)
      PROVE  /\ DataOffset(old, es[n]) # NoData
             /\ \A o \in 1..Len(es) \ {n} : Extent(old, es[n]) \cap Extent(old, es[o]) = {}
  BY DEF LaidApart
<1>7. ASSUME NEW i \in 1..m, NEW n \in 1..Len(es), pieces[i] = InPlace(es[n])
      PROVE  /\ DataOffset(zip, fs[i]) # NoData /\ Extent(zip, fs[i]) = Extent(old, es[n])
             /\ \A c \in Extent(zip, fs[i]) : c \in Nat /\ c > 0 /\ c <= base
  <2>1. PICK e, f : e = es[n] /\ f = fs[i]
    OBVIOUS
  <2>2. EntryOk(e) /\ pieces[i] = InPlace(e) /\ DataOffset(old, e) # NoData
    BY <1>6, <1>7, <2>1
  <2>3. i \in 1..Len(pieces) /\ f = Parse(zip).entries[i]
    BY <1>2, <2>1
  <2>4. /\ DataOffset(zip, f) # NoData /\ Extent(zip, f) = Extent(old, e)
        /\ \A c \in Extent(zip, f) : c \in Nat /\ c > 0 /\ c <= base
    BY <2>2, <2>3, StayingSpan
  <2>. QED
    BY <2>1, <2>4
<1>8. ASSUME NEW i \in 1..m, ~pieces[i].stays
      PROVE  /\ DataOffset(zip, fs[i]) # NoData
             /\ \A c \in Extent(zip, fs[i]) : c \in Nat /\ c > base /\ c <= top
             /\ \A j \in 1..m \ {i} :
                  ~pieces[j].stays => Extent(zip, fs[i]) \cap Extent(zip, fs[j]) = {}
  <2>1. PICK f : f = fs[i]
    OBVIOUS
  <2>2. i \in 1..Len(pieces) /\ f = Parse(zip).entries[i]
    BY <1>2, <2>1
  <2>3. DataOffset(zip, f) # NoData
    BY <1>8, <2>2, SpanOf
  <2>4. /\ \A c \in Extent(zip, f) : c \in Nat /\ c > base /\ c <= Parse(zip).dir.offset
        /\ \A j \in 1..Len(pieces) \ {i} :
             ~pieces[j].stays => Extent(zip, f) \cap Extent(zip, Parse(zip).entries[j]) = {}
    BY <1>8, <2>2, WrittenApart
  <2>. QED
    BY <1>2, <1>3, <2>1, <2>3, <2>4
<1>9. ASSUME NEW i \in 1..m, pieces[i].stays
      PROVE  /\ DataOffset(zip, fs[i]) # NoData
             /\ \A c \in Extent(zip, fs[i]) : c \in Nat /\ c > 0 /\ c <= base
  <2>1. PICK n \in 1..Len(es) : pieces[i] = InPlace(es[n])
    BY <1>2, <1>5, <1>9 DEF StayOnce
  <2>. QED
    BY <1>7, <2>1
<1>10. ASSUME NEW i \in 1..m, NEW j \in 1..m, i # j
       PROVE  Extent(zip, fs[i]) \cap Extent(zip, fs[j]) = {}
  <2>1. CASE ~pieces[i].stays /\ ~pieces[j].stays
    BY <1>8, <1>10, <2>1
  <2>2. CASE (pieces[i].stays /\ ~pieces[j].stays) \/ (~pieces[i].stays /\ pieces[j].stays)
    <3>1. ASSUME NEW k \in 1..m, NEW l \in 1..m, pieces[k].stays, ~pieces[l].stays
          PROVE  Extent(zip, fs[k]) \cap Extent(zip, fs[l]) = {}
      <4>. SUFFICES ASSUME NEW c, c \in Extent(zip, fs[k]), c \in Extent(zip, fs[l]) PROVE FALSE
        OBVIOUS
      <4>1. c \in Nat /\ c <= base /\ c > base
        BY <1>8, <1>9, <3>1
      <4>. QED
        BY <1>4, <4>1
    <3>. QED
      BY <2>2, <3>1
  <2>3. CASE pieces[i].stays /\ pieces[j].stays
    <3>1. PICK n, o \in 1..Len(es) : n # o /\ pieces[i] = InPlace(es[n]) /\ pieces[j] = InPlace(es[o])
      BY SMTT(40), <1>2, <1>5, <1>10, <2>3 DEF StayOnce
    <3>2. Extent(zip, fs[i]) = Extent(old, es[n]) /\ Extent(zip, fs[j]) = Extent(old, es[o])
      BY <1>7, <3>1
    <3>. QED
      BY <1>6, <3>1, <3>2
  <2>. QED
    BY <2>1, <2>2, <2>3
<1>11. ASSUME NEW i \in 1..m
       PROVE  DataOffset(zip, fs[i]) # NoData /\ Extent(zip, fs[i]) \subseteq 1..top
  <2>1. DataOffset(zip, fs[i]) # NoData
    BY <1>8, <1>9
  <2>2. ASSUME NEW c \in Extent(zip, fs[i]) PROVE c \in Nat /\ c > 0 /\ c <= top
    <3>1. CASE pieces[i].stays
      <4>1. c \in Nat /\ c > 0 /\ c <= base
        BY <1>9, <3>1
      <4>. QED
        BY <1>4, <4>1
    <3>2. CASE ~pieces[i].stays
      <4>1. c \in Nat /\ c > base /\ c <= top
        BY <1>8, <3>2
      <4>. QED
        BY <1>4, <4>1
    <3>. QED
      BY <3>1, <3>2
  <2>3. Extent(zip, fs[i]) \subseteq 1..top
    BY <1>4, <2>2
  <2>. QED
    BY <2>1, <2>3
<1>. QED
  BY <1>2, <1>3, <1>10, <1>11 DEF LaidApart
\* Names of pieces are those of the entries.
LEMMA PlainNames ==
  ASSUME NEW zip, NEW pieces, NEW base, PlainLaid(zip, pieces, base), OnceEach(pieces)
  PROVE  NamesDiffer(zip)
<1>1. PlainParses(zip, pieces, base)
  BY PlainIs
<1>2. PICK es : es = Parse(zip).entries
  OBVIOUS
<1>3. ASSUME NEW k \in 1..Len(pieces)
      PROVE  pieces[k] # Refused /\ es[k].name = pieces[k].record.name
  <2>1. PICK p, x : p = pieces[k] /\ x = PlacedRecords(base, pieces)[k]
    OBVIOUS
  <2>2. p # Refused /\ CdRecord(p.record)
    BY <2>1 DEF PlainLaid, CommitLaid, Kept, PiecesAre, PieceIs
  <2>3. \E at : x = [p.record EXCEPT !.lho = at]
    BY <1>1, <2>1 DEF PlainParses, EndsAre, RecordAt
  <2>4. x.name = p.record.name
    BY <2>2, <2>3 DEF CdRecord
  <2>5. es[k] = EntryOf(x, Widened(x))
    BY <1>1, <1>2, <2>1 DEF PlainParses
  <2>. QED
    BY <2>1, <2>2, <2>4, <2>5 DEF EntryOf
<1>4. Len(es) = Len(pieces)
  BY <1>1, <1>2 DEF PlainParses
<1>. QED
  BY <1>2, <1>3, <1>4 DEF NamesDiffer, OnceEach

\* What a commit promises of the layout of the new archive, whatever the old one.
LayoutOf(mode, old, zip) ==
  /\ mode = "full" => LaidApart(zip) /\ NothingElse(zip)
  /\ LaidApart(old) => LaidApart(zip)
  /\ NamesDiffer(old) => NamesDiffer(zip)

\* A commit that leaves values below the limits keeps it.
LEMMA CommitLays ==
  ASSUME MapInv, ArchiveInv, UnderLimits(disk'.zip), [Next]_vars,
         mount.phase = "open", mount'.phase = "committed"
  PROVE  LayoutOf(mount'.mode, mount.archive, disk'.zip)
<1>1. PICK mode, order : CommitLeaves(mode, order)
  BY CommitDoes
<1>2. CommitReady
  BY DEF CommitReady, ArchiveInv, TypedInv, Mounted
<1>3. mode \in Modes /\ order \in Orders /\ mode = mount'.mode /\ Blocks(mount.archive)
  BY <1>1 DEF CommitLeaves
<1>4. PICK old, zip, pieces : old = mount.archive /\ zip = disk'.zip /\ pieces = BuildPieces(mode, order)
  OBVIOUS
<1>5. PICK es : es = Parse(old).entries
  OBVIOUS
<1>6. (NamesDiffer(old) => OnceEach(pieces)) /\ StayOnce(mode, es, pieces)
  BY <1>2, <1>3, <1>4, <1>5, BuildOnce
<1>7. ASSUME NEW base, CommitLaid(zip, pieces, base) PROVE PlainLaid(zip, pieces, base)
  BY <1>4, <1>7, PlainBelow
<1>8. CASE mode = "full"
  <2>1. PICK base : base = 0
    OBVIOUS
  <2>2. CommitLaid(zip, pieces, base)
    BY <1>1, <1>4, <1>8, <2>1 DEF CommitLeaves
  <2>3. PlainLaid(zip, pieces, base)
    BY <1>7, <2>2
  <2>4. \A k \in 1..Len(pieces) : ~pieces[k].stays
    BY <1>6, <1>8, <2>2 DEF StayOnce, CommitLaid, Kept
  <2>5. LaidApart(zip) /\ NothingElse(zip)
    BY <2>1, <2>3, <2>4, FullApart
  <2>6. NamesDiffer(old) => NamesDiffer(zip)
    BY <1>6, <2>3, PlainNames
  <2>. QED
    BY <1>3, <1>4, <2>5, <2>6 DEF LayoutOf
<1>9. CASE mode = "incremental"
  <2>1. PICK base : base = Len(old)
    OBVIOUS
  <2>2. CommitLaid(zip, pieces, base) /\ \A i \in 1..base : zip[i] = old[i]
    BY <1>1, <1>4, <1>9, <2>1 DEF CommitLeaves
  <2>3. PlainLaid(zip, pieces, base)
    BY <1>7, <2>2
  <2>4. \A i \in 1..Len(es) : EntryOk(es[i])
    <3>1. \E S, C, A : BuildParts(mode, order, S, C, A)
      BY <1>2, <1>3, BuildPartsAre
    <3>. QED
      BY <1>4, <1>5, <3>1 DEF BuildParts
  <2>5. LaidApart(old) => LaidApart(zip)
    BY <1>3, <1>4, <1>5, <1>6, <2>1, <2>2, <2>3, <2>4, AppendedApart
  <2>6. NamesDiffer(old) => NamesDiffer(zip)
    BY <1>6, <2>3, PlainNames
  <2>. QED
    BY <1>3, <1>4, <1>9, <2>5, <2>6 DEF LayoutOf
<1>. QED
  BY <1>3, <1>8, <1>9 DEF Modes
\* A step keeps it.
LEMMA NextLays ==
  MapInv /\ ArchiveInv /\ CommitLayout /\ BelowLimits' /\ [Next]_vars => CommitLayout'
<1>. SUFFICES ASSUME MapInv, ArchiveInv, CommitLayout, BelowLimits', [Next]_vars,
                     mount'.phase = "committed"
              PROVE  LayoutOf(mount'.mode, mount'.before, disk'.zip)
  <2>1. LayoutOf(mount.mode, mount.before, disk.zip)' <=>
          LayoutOf(mount'.mode, mount'.before, disk'.zip)
    OBVIOUS
  <2>. QED
    BY <2>1 DEF CommitLayout, LayoutOf
<1>1. CASE ~Mounted
  <2>1. UNCHANGED <<disk, mount>>
    BY <1>1, StaysCommitted
  <2>. QED
    BY <2>1 DEF CommitLayout, LayoutOf
<1>2. CASE Mounted
  <2>1. PICK mode, order : CommitLeaves(mode, order)
    BY <1>2, CommitDoes DEF Mounted
  <2>2. mount'.before = mount.archive
    BY <2>1 DEF CommitLeaves
  <2>3. UnderLimits(disk'.zip)
    <3>1. UnderLimits(disk.zip)'
      BY DEF BelowLimits
    <3>. QED
      BY <3>1
  <2>4. LayoutOf(mount'.mode, mount.archive, disk'.zip)
    BY <1>2, <2>3, CommitLays DEF Mounted
  <2>. QED
    BY <2>2, <2>4
<1>. QED
  BY <1>1, <1>2

\* Below the limit values, a FULL commit lays every entry out apart from the others and
\* leaves nothing else before the directory, also where the archive before it had entries
\* that share their data or bytes of no entry; an INCREMENTAL one keeps apart what was;
\* and neither makes a name stand twice that did not (build_full, build_incremental,
\* place_verbatim, record_in_place, write_placed).
THEOREM CommitsLaidOut == Spec /\ []BelowLimits => []CommitLayout
<1>1. Init => CommitLayout
  <2>. SUFFICES ASSUME Init PROVE CommitLayout
    OBVIOUS
  <2>1. mount.phase = "closed"
    BY DEF Init, Closed
  <2>. QED
    BY <2>1 DEF CommitLayout
<1>. QED
  BY <1>1, NextLays, MapInvariant, ArchiveInvariant, PTL DEF Spec

-----------------------------------------------------------------------------
(* How large a commit leaves the archive. *)

\* The sum of the first numbers, step by step.
TotalsTo(counts, f, n) ==
  f = [k \in 0..n |-> IF k = 0 THEN 0 ELSE f[k - 1] + counts[k]]

\* The recursive function exists.
LEMMA TotalsExist ==
  ASSUME NEW counts, NEW m \in Nat PROVE \E f : TotalsTo(counts, f, m)
<1>. DEFINE T == {n \in 0..m : \E f : TotalsTo(counts, f, n)}
<1>1. 0 \in T
  <2>1. PICK f : f = [k \in 0..0 |-> 0]
    OBVIOUS
  <2>2. TotalsTo(counts, f, 0)
    BY <2>1 DEF TotalsTo
  <2>. QED
    BY <2>2
<1>2. ASSUME NEW n \in 1..m, n - 1 \in T PROVE n \in T
  <2>1. PICK f : TotalsTo(counts, f, n - 1)
    BY <1>2
  <2>2. PICK g : g = [k \in 0..n |-> IF k = n THEN f[n - 1] + counts[n] ELSE f[k]]
    OBVIOUS
  <2>3. n \in Nat /\ n # 0
    OBVIOUS
  <2>4. \A k \in 0..(n - 1) : f[k] = IF k = 0 THEN 0 ELSE f[k - 1] + counts[k]
    BY <2>1 DEF TotalsTo
  <2>5. \A k \in 0..n : g[k] = IF k = n THEN f[n - 1] + counts[n] ELSE f[k]
    BY <2>2
  <2>6. ASSUME NEW k \in 0..n PROVE g[k] = IF k = 0 THEN 0 ELSE g[k - 1] + counts[k]
    <3>1. k # 0 => k - 1 \in 0..n /\ k - 1 # n /\ g[k - 1] = f[k - 1]
      BY <2>3, <2>5
    <3>2. CASE k = n
      BY <2>3, <2>5, <3>1, <3>2
    <3>3. CASE k # n
      <4>1. k \in 0..(n - 1)
        BY <2>3, <3>3
      <4>. QED
        BY <2>4, <2>5, <3>1, <3>3, <4>1
    <3>. QED
      BY <3>2, <3>3
  <2>7. g = [k \in 0..n |-> g[k]]
    BY <2>2
  <2>8. TotalsTo(counts, g, n)
    BY <2>6, <2>7 DEF TotalsTo
  <2>. QED
    BY <2>3, <2>8
<1>3. m \in T
  <2>. HIDE DEF T
  <2>1. \A k \in 0..m : k \in T
    BY <1>1, <1>2, CountUp
  <2>. QED
    BY <2>1
<1>. QED
  BY <1>3

\* It ends with the total.
TotalRuns(counts, f, n) ==
  f[0] = 0 /\ Total(counts) = f[n] /\ \A k \in 1..n : f[k] = f[k - 1] + counts[k]

\* The recursive function of Total goes there.
LEMMA TotalGoes ==
  ASSUME NEW counts, NEW m \in Nat, m = Len(counts) PROVE \E f : TotalRuns(counts, f, m)
<1>. DEFINE f == CHOOSE g : g = [n \in 0..Len(counts) |-> IF n = 0 THEN 0 ELSE g[n - 1] + counts[n]]
<1>1. TotalsTo(counts, f, Len(counts))
  <2>1. \E g : TotalsTo(counts, g, Len(counts))
    BY TotalsExist
  <2>2. \E g : g = [n \in 0..Len(counts) |-> IF n = 0 THEN 0 ELSE g[n - 1] + counts[n]]
    BY <2>1, Zenon DEF TotalsTo
  <2>. QED
    BY <2>2, Zenon DEF TotalsTo
<1>2. Total(counts) = f[Len(counts)]
  BY Zenon DEF Total
<1>. HIDE DEF f
<1>3. \A k \in 0..m : f[k] = IF k = 0 THEN 0 ELSE f[k - 1] + counts[k]
  BY <1>1 DEF TotalsTo
<1>4. f[0] = 0 /\ \A k \in 1..m : f[k] = f[k - 1] + counts[k]
  <2>1. f[0] = 0
    <3>1. 0 \in 0..m
      OBVIOUS
    <3>. QED
      BY <1>3, <3>1
  <2>2. ASSUME NEW k \in 1..m PROVE f[k] = f[k - 1] + counts[k]
    <3>1. k \in 0..m /\ k # 0
      OBVIOUS
    <3>. QED
      BY <1>3, <3>1
  <2>. QED
    BY <2>1, <2>2
<1>5. TotalRuns(counts, f, m)
  BY <1>2, <1>4 DEF TotalRuns
<1>. QED
  BY <1>5

\* Of natural numbers it is one.
LEMMA TotalIs ==
  ASSUME NEW m \in Nat, NEW c, m = Len(c), \A k \in 1..m : c[k] \in Nat
  PROVE  Total(c) \in Nat
<1>1. PICK f : TotalRuns(c, f, m)
  BY TotalGoes
<1>. DEFINE T == {n \in 0..m : f[n] \in Nat}
<1>2. 0 \in T
  BY <1>1 DEF TotalRuns
<1>3. ASSUME NEW n \in 1..m, n - 1 \in T PROVE n \in T
  <2>1. PICK a \in Nat, b \in Nat : a = f[n - 1] /\ b = c[n]
    BY <1>3
  <2>2. f[n] = a + b
    BY <1>1, <2>1 DEF TotalRuns
  <2>3. a + b \in Nat /\ n \in 0..m
    OBVIOUS
  <2>. QED
    BY <2>2, <2>3
<1>4. m \in T
  <2>. HIDE DEF T
  <2>1. \A k \in 0..m : k \in T
    BY <1>2, <1>3, CountUp
  <2>. QED
    BY <2>1
<1>. QED
  BY <1>1, <1>4 DEF TotalRuns

\* Numbers that grow by no more than two others together.
LEMMA TotalsCover ==
  ASSUME NEW m \in Nat, NEW f, Grows(f, m),
         NEW c, m = Len(c), \A k \in 1..m : c[k] \in Nat,
         NEW d, m = Len(d), \A k \in 1..m : d[k] \in Nat,
         \A k \in 1..m : f[k] <= f[k - 1] + c[k] + d[k]
  PROVE  f[m] <= Total(c) + Total(d)
<1>1. PICK g : TotalRuns(c, g, m)
  BY TotalGoes
<1>2. PICK h : TotalRuns(d, h, m)
  BY TotalGoes
<1>. DEFINE T == {n \in 0..m : g[n] \in Nat /\ h[n] \in Nat /\ f[n] <= g[n] + h[n]}
<1>3. 0 \in T
  BY <1>1, <1>2 DEF TotalRuns, Grows
<1>4. ASSUME NEW n \in 1..m, n - 1 \in T PROVE n \in T
  <2>1. n \in 0..m /\ n - 1 \in 0..m
    OBVIOUS
  <2>2. PICK a \in Nat, b \in Nat, x \in Nat, y \in Nat, p \in Nat, q \in Nat :
          /\ a = g[n - 1] /\ b = h[n - 1] /\ x = c[n] /\ y = d[n] /\ p = f[n - 1] /\ q = f[n]
          /\ p <= a + b
    BY <1>4, <2>1 DEF Grows
  <2>3. g[n] = a + x /\ h[n] = b + y
    BY <1>1, <1>2, <2>2 DEF TotalRuns
  <2>4. q <= p + x + y
    BY <2>2
  <2>6. p <= a + b
    BY <2>2
  <2>7. q <= (a + x) + (b + y)
    BY <2>4, <2>6
  <2>5. q <= (a + x) + (b + y) /\ a + x \in Nat /\ b + y \in Nat
    BY <2>7
  <2>. QED
    BY <2>1, <2>2, <2>3, <2>5
<1>5. m \in T
  <2>. HIDE DEF T
  <2>1. \A k \in 0..m : k \in T
    BY <1>3, <1>4, CountUp
  <2>. QED
    BY <2>1
<1>. QED
  BY <1>1, <1>2, <1>5 DEF TotalRuns
\* The directory that was found is in the file.
LEMMA DirectoryEnds ==
  ASSUME NEW zip, Blocks(zip), Parse(zip).ok
  PROVE  /\ Parse(zip).dir.offset \in Nat /\ Parse(zip).dir.size \in Nat
         /\ Parse(zip).dir.offset + Parse(zip).dir.size <= Len(zip)
<1>1. PICK d : d = Directory(zip, FindEocd(zip))
  OBVIOUS
<1>2. Refused.ok = FALSE
  BY DEF Refused
<1>3. d.ok /\ Parse(zip).dir = d
  <2>1. Parse(zip) = ParseAt(zip, d)
    BY <1>1 DEF Parse
  <2>2. d.ok
    BY <1>2, <2>1 DEF ParseAt
  <2>3. PICK recs : ParseAt(zip, d) = ParseCd(d, recs)
    BY <2>2 DEF ParseAt
  <2>4. ParseCd(d, recs).ok => ParseCd(d, recs).dir = d
    BY <1>2 DEF ParseCd
  <2>. QED
    BY <2>1, <2>2, <2>3, <2>4
<1>4. PICK r : d = DirectoryOf(r, Len(zip))
  BY <1>1, <1>2, <1>3 DEF Directory
<1>5. /\ ~(r.disk # 0 \/ r.cdOffset + r.cdSize > Len(zip))
      /\ d = [ok |-> TRUE, offset |-> r.cdOffset, size |-> r.cdSize, count |-> r.count]
  BY <1>2, <1>3, <1>4 DEF DirectoryOf
<1>6. d.offset \in Nat /\ d.size \in Nat
  BY <1>1, <1>3, DirectoryFound DEF DirectoryIs
<1>7. PICK a \in Nat, b \in Nat, n \in Nat : a = d.offset /\ b = d.size /\ n = Len(zip)
  BY <1>6 DEF Blocks, IsSeq
<1>8. ~(a + b > n)
  BY <1>5, <1>7
<1>9. a + b <= n
  BY <1>8
<1>. QED
  BY <1>3, <1>7, <1>9

\* What counts as live: the data of the entries, and all from the directory on.
LEMMA LiveIs ==
  ASSUME NEW zip, Blocks(zip), Parse(zip).ok, NEW es, es = Parse(zip).entries,
         NEW comps, comps = [i \in 1..Len(es) |-> es[i].comp]
  PROVE  /\ Len(es) \in Nat /\ (\A i \in 1..Len(es) : EntryOk(es[i])) /\ Total(comps) \in Nat
         /\ LiveSize(zip) = Total(comps) + (Len(zip) - Parse(zip).dir.offset)
         /\ LiveSize(zip) \in Nat
<1>1. ParsedIs(Parse(zip))
  BY ParseIs
<1>2. PICK m \in Nat : m = Len(es) /\ \A i \in 1..m : EntryOk(es[i])
  BY <1>1 DEF ParsedIs, IsSeq
<1>3. Len(comps) = m /\ \A i \in 1..m : comps[i] \in Nat
  BY <1>2 DEF EntryOk
<1>4. PICK t \in Nat : t = Total(comps)
  BY <1>3, TotalIs
<1>5. PICK a \in Nat, b \in Nat, n \in Nat :
        a = Parse(zip).dir.offset /\ b = Parse(zip).dir.size /\ n = Len(zip) /\ a + b <= n
  BY DirectoryEnds DEF Blocks, IsSeq
<1>6. LiveSize(zip) = t + b + (n - (a + b))
  BY <1>4, <1>5 DEF LiveSize, LiveOf
<1>7. t + b + (n - (a + b)) = t + (n - a) /\ t + (n - a) \in Nat
  <2>1. a + b <= n
    BY <1>5
  <2>2. n - a \in Nat
    BY <2>1
  <2>. QED
    BY <2>2
<1>. QED
  BY <1>2, <1>4, <1>5, <1>6, <1>7

\* What the pieces of a commit take is live or header, but for the end record.
LEMMA CommitCovers ==
  ASSUME NEW zip, Blocks(zip), NEW pieces, NEW base, PlainLaid(zip, pieces, base),
         \A k \in 1..Len(pieces) : pieces[k].stays => Len(pieces[k].cells) = 0
  PROVE  Len(zip) <= base + LiveSize(zip) + Headers(zip) /\ Headers(zip) \in Nat
<1>1. SpansFit(pieces, base) /\ PlainParses(zip, pieces, base) /\ Parse(zip).ok
  BY SpansAre, PlainIs DEF PlainLaid
<1>0. PICK es : es = Parse(zip).entries
  OBVIOUS
<1>2. PICK m \in Nat : m = Len(pieces) /\ es = Parse(zip).entries /\ Len(es) = m
  BY <1>0, <1>1 DEF SpansFit, PlainParses
<1>3. PICK comps : comps = [i \in 1..m |-> es[i].comp]
  OBVIOUS
<1>4. PICK heads : heads = [i \in 1..m |-> HeaderOf(zip, es[i])]
  OBVIOUS
<1>5. PICK f : f = Ends(pieces)
  OBVIOUS
<1>6. PICK b \in Nat, last \in Nat : b = base /\ last = f[m]
  BY <1>1, <1>2, <1>5 DEF SpansFit
<1>7. /\ \A i \in 1..m : EntryOk(es[i])
      /\ LiveSize(zip) = Total(comps) + (Len(zip) - Parse(zip).dir.offset)
      /\ Total(comps) \in Nat
  BY <1>1, <1>2, <1>3, LiveIs
<1>8. ASSUME NEW k \in 1..m
      PROVE  comps[k] \in Nat /\ heads[k] \in Nat /\ f[k] <= f[k - 1] + comps[k] + heads[k]
  <2>1. PICK e : e = es[k] /\ EntryOk(e) /\ heads[k] = HeaderOf(zip, e)
    BY <1>4, <1>7
  <2>2. PICK c \in Nat, at \in Nat : c = e.comp /\ c = comps[k] /\ at = e.lho
    BY <1>3, <2>1 DEF EntryOk
  <2>3. PICK x \in Nat, y \in Nat : x = f[k - 1] /\ y = f[k]
    BY <1>1, <1>2, <1>5 DEF SpansFit
  <2>4. PICK h \in Nat : h = heads[k]
    <3>1. CASE DataOffset(zip, e) = NoData
      BY <2>1, <3>1 DEF HeaderOf
    <3>2. CASE DataOffset(zip, e) # NoData
      <4>1. PICK o \in Nat : o = DataOffset(zip, e) /\ at < o
        BY <2>1, <2>2, <3>2, DataOffsetIs
      <4>2. HeaderOf(zip, e) = o - at /\ o - at \in Nat
        BY <2>2, <3>2, <4>1 DEF HeaderOf
      <4>. QED
        BY <2>1, <4>2
    <3>. QED
      BY <3>1, <3>2
  <2>5. y <= x + c + h
    <3>1. CASE pieces[k].stays
      <4>1. y = x + 0
        BY <1>1, <1>2, <1>5, <2>3, <3>1 DEF PlainParses, EndsAre
      <4>. QED
        BY <4>1
    <3>2. CASE ~pieces[k].stays
      <4>1. PieceSpans(zip, base, e, x, y)
        BY <1>2, <1>5, <2>1, <2>3, <3>2, PieceSpan
      <4>2. PICK o \in Nat : o = DataOffset(zip, e) /\ o # NoData
        BY <4>1 DEF PieceSpans
      <4>3. at = b + x /\ o + c = b + y
        BY <1>6, <2>2, <4>1, <4>2 DEF PieceSpans
      <4>4. h = o - at
        BY <2>1, <2>2, <2>4, <4>2 DEF HeaderOf
      <4>. QED
        BY <4>3, <4>4
    <3>. QED
      BY <3>1, <3>2
  <2>. QED
    BY <2>2, <2>3, <2>4, <2>5
<1>9. Len(comps) = m /\ Len(heads) = m
  BY <1>3, <1>4
<1>10. Grows(f, m)
  BY <1>1, <1>2, <1>5 DEF PlainParses, EndsAre
<1>11. f[m] <= Total(comps) + Total(heads)
  BY <1>8, <1>9, <1>10, TotalsCover
<1>12. PICK p \in Nat, q \in Nat : p = Total(comps) /\ q = Total(heads)
  BY <1>8, <1>9, TotalIs
<1>13. Headers(zip) = q
  BY <1>2, <1>4, <1>12 DEF Headers
<1>14. Parse(zip).dir.offset = b + last /\ Len(zip) = b + last + m + 1
  BY <1>1, <1>2, <1>5, <1>6 DEF PlainParses
<1>15. LiveSize(zip) = p + ((b + last + m + 1) - (b + last))
  BY <1>7, <1>12, <1>14
<1>16. last <= p + q
  BY <1>6, <1>11, <1>12
<1>17. b + last + m + 1 <= b + (p + ((b + last + m + 1) - (b + last))) + q
  BY <1>16
<1>. QED
  BY <1>6, <1>13, <1>14, <1>15, <1>17
\* The thresholds that commit() looks at let an archive be so large.
LEMMA BloatBounds ==
  ASSUME NEW len \in Nat, NEW live \in Nat, NEW base \in Nat,
         base = 0 \/ (base = len /\ ~Bloated(live, len))
  PROVE  /\ base <= Lesser(GcThreshold * live, live + GcMaxBloat)
         /\ Lesser(GcThreshold * live, live + GcMaxBloat) \in Nat
<1>1. GcThreshold \in Nat /\ GcMaxBloat \in Nat
  BY MountAssumption
<1>2. GcThreshold * live \in Nat
  <2>1. \A a, b \in Nat : a * b \in Nat
    OBVIOUS
  <2>. QED
    BY <1>1, <2>1
<1>3. PICK t \in Nat, g \in Nat : t = GcThreshold * live /\ g = GcMaxBloat
  BY <1>1, <1>2
<1>4. Lesser(t, live + g) \in {t, live + g}
  BY DEF Lesser
<1>5. base <= t /\ base <= live + g
  <2>1. CASE base = 0
    BY <2>1
  <2>2. CASE base = len /\ ~Bloated(live, len)
    <3>1. ~(len >= t) /\ ~(Greater(len - live, 0) >= g)
      BY <1>3, <2>2 DEF Bloated
    <3>2. len - live < g
      <4>1. CASE len - live < 0
        BY <4>1
      <4>2. CASE ~(len - live < 0)
        BY <3>1, <4>2 DEF Greater
      <4>. QED
        BY <4>1, <4>2
    <3>. QED
      BY <2>2, <3>1, <3>2
  <2>. QED
    BY <2>1, <2>2
<1>6. live + g \in Nat
  OBVIOUS
<1>. QED
  BY <1>3, <1>4, <1>5, <1>6

\* What a commit by commit() promises of the size of the new archive.
GrowthBounded(old, zip) ==
  Len(zip) <= Lesser(GcThreshold * LiveSize(old), LiveSize(old) + GcMaxBloat)
                + LiveSize(zip) + Headers(zip)

\* A commit that leaves values below the limits keeps it.
LEMMA CommitSizes ==
  ASSUME MapInv, ArchiveInv, ArchiveInv', UnderLimits(disk'.zip), [Next]_vars,
         mount.phase = "open", mount'.phase = "committed", mount'.how = "commit"
  PROVE  GrowthBounded(mount.archive, disk'.zip)
<1>1. PICK mode, order : CommitLeaves(mode, order)
  BY CommitDoes
<1>2. CommitReady
  BY DEF CommitReady, ArchiveInv, TypedInv, Mounted
<1>3. mode \in Modes /\ order \in Orders /\ mode = ModeOf("commit") /\ Blocks(mount.archive)
  BY <1>1 DEF CommitLeaves
<1>4. PICK old, zip, pieces : old = mount.archive /\ zip = disk'.zip /\ pieces = BuildPieces(mode, order)
  OBVIOUS
<1>5. Blocks(zip)
  BY <1>4 DEF ArchiveInv, TypedInv, DiskTyped
<1>6. PICK len \in Nat, live \in Nat : len = Len(old) /\ live = LiveSize(old)
  <2>1. Blocks(old) /\ Parse(old).ok
    BY <1>2, <1>3, <1>4 DEF CommitReady, MountTyped
  <2>2. LiveSize(old) \in Nat
    BY <2>1, LiveIs
  <2>. QED
    BY <2>1, <2>2 DEF Blocks, IsSeq
<1>7. PICK base \in Nat : base = IF mode = "full" THEN 0 ELSE len
  OBVIOUS
<1>8. CommitLaid(zip, pieces, base)
  BY <1>1, <1>4, <1>6, <1>7 DEF CommitLeaves
<1>9. PlainLaid(zip, pieces, base)
  BY <1>4, <1>8, PlainBelow
<1>10. ASSUME NEW k \in 1..Len(pieces), pieces[k].stays PROVE Len(pieces[k].cells) = 0
  <2>1. StayOnce(mode, Parse(old).entries, pieces)
    BY <1>2, <1>3, <1>4, BuildOnce
  <2>2. pieces[k] # Refused
    BY <1>8 DEF CommitLaid, Kept
  <2>3. \E e : pieces[k] = InPlace(e)
    BY <1>10, <2>1, <2>2 DEF StayOnce
  <2>4. PICK y : pieces[k] = Piece(<<>>, y, TRUE)
    BY <2>2, <2>3 DEF InPlace
  <2>5. pieces[k].cells = <<>>
    BY <2>4 DEF Piece
  <2>6. Len(<<>>) = 0
    OBVIOUS
  <2>. QED
    BY <2>5, <2>6
<1>11. Len(zip) <= base + LiveSize(zip) + Headers(zip) /\ Headers(zip) \in Nat
  BY <1>5, <1>9, <1>10, CommitCovers
<1>12. base = 0 \/ (base = len /\ ~Bloated(live, len))
  <2>1. CASE Bloated(live, len)
    BY <1>3, <1>4, <1>6, <1>7, <2>1 DEF ModeOf
  <2>2. CASE ~Bloated(live, len)
    BY <1>7, <2>2
  <2>. QED
    BY <2>1, <2>2
<1>13. PICK top \in Nat : top = Lesser(GcThreshold * live, live + GcMaxBloat) /\ base <= top
  BY <1>12, BloatBounds
<1>14. LiveSize(zip) \in Nat /\ Headers(zip) \in Nat /\ Len(zip) \in Nat
  <2>1. Parse(zip).ok
    BY <1>9 DEF PlainLaid
  <2>. QED
    BY <1>5, <1>11, <2>1, LiveIs DEF Blocks, IsSeq
<1>15. PICK x \in Nat, y \in Nat, z \in Nat : x = LiveSize(zip) /\ y = Headers(zip) /\ z = Len(zip)
  BY <1>14
<1>16. z <= base + x + y
  BY <1>11, <1>15
<1>17. base <= top
  BY <1>13
<1>18. z <= top + x + y
  BY <1>16, <1>17
<1>. QED
  BY <1>4, <1>6, <1>13, <1>15, <1>18 DEF GrowthBounded

\* A step keeps it.
LEMMA NextSizes ==
  MapInv /\ ArchiveInv /\ ArchiveInv' /\ SizeBounded /\ BelowLimits' /\ [Next]_vars => SizeBounded'
<1>. SUFFICES ASSUME MapInv, ArchiveInv, ArchiveInv', SizeBounded, BelowLimits', [Next]_vars,
                     mount'.phase = "committed", mount'.how = "commit"
              PROVE  GrowthBounded(mount'.before, disk'.zip)
  BY DEF SizeBounded, GrowthBounded
<1>1. CASE ~Mounted
  <2>1. UNCHANGED <<disk, mount>>
    BY <1>1, StaysCommitted
  <2>. QED
    BY <2>1 DEF SizeBounded, GrowthBounded
<1>2. CASE Mounted
  <2>1. PICK mode, order : CommitLeaves(mode, order)
    BY <1>2, CommitDoes DEF Mounted
  <2>2. mount'.before = mount.archive
    BY <2>1 DEF CommitLeaves
  <2>3. UnderLimits(disk'.zip)
    <3>1. UnderLimits(disk.zip)'
      BY DEF BelowLimits
    <3>. QED
      BY <3>1
  <2>4. GrowthBounded(mount.archive, disk'.zip)
    BY <1>2, <2>3, CommitSizes DEF Mounted
  <2>. QED
    BY <2>2, <2>4
<1>. QED
  BY <1>1, <1>2

\* Below the limit values, whatever the two thresholds, what commit() leaves is at most
\* as large as either threshold lets the archive before it be, and what is live in the new
\* one with its local headers: the next commit looks at the bloat that this one left
\* (should_full_commit, Archive::bloat, commit).
THEOREM CommitsBounded == Spec /\ []BelowLimits => []SizeBounded
<1>1. Init => SizeBounded
  <2>. SUFFICES ASSUME Init PROVE SizeBounded
    OBVIOUS
  <2>1. mount.phase = "closed"
    BY DEF Init, Closed
  <2>. QED
    BY <2>1 DEF SizeBounded
<1>. QED
  BY <1>1, NextSizes, MapInvariant, ArchiveInvariant, PTL DEF Spec
=============================================================================
