---------------------------- MODULE ImageProofs ----------------------------
(***************************************************************************)
(* An attached image, for any number of partitions, volumes and writes, any *)
(* assignment of drivers to partitions, and host writes that fail at any   *)
(* point: nothing that was accepted is lost, and a Detach that reports     *)
(* success has flushed every volume the image recorded.                    *)
(***************************************************************************)
EXTENDS Image, SequenceTheorems, TLAPS

Kinds   == {"cached", "fat", "btrfs"}
Volumes == [part : Parts, kind : Kinds, released : BOOLEAN, pending : SUBSET Nat]
Returns == [op : {"none", "unmount", "detach"}, vol : Nat, ok : BOOLEAN]

ImageType ==
    /\ vols \in Seq(Volumes)
    /\ mounts \in [Parts -> Nat]
    /\ src \in [Parts -> SUBSET Nat]
    /\ dst \in [Parts -> SUBSET Nat]
    /\ writes \in Nat
    /\ promised \subseteq 1..writes
    /\ pc \in {"idle", "unmount", "copy"}
    /\ out \in OutPaths \cup {""}
    /\ region \in 0..NumParts
    /\ ret \in Returns

Vols == 1..Len(vols)

\* Pending writes were accepted, volumes recorded were mounted, and only FAT
\* lets go of its file.
VolumesInv ==
    /\ \A p \in Parts : mounts[p] \in 0..Len(vols)
    /\ \A v \in Vols : /\ vols[v].pending \subseteq 1..writes
                       /\ vols[v].released => vols[v].kind = "fat"

recorded(v) == \E p \in Parts : mounts[p] = v

unflushed(v) == ~vols[v].released /\ promised \cap vols[v].pending # {}

\* A volume that still owes a promised write is one that Detach will come to.
OwingRecorded == \A v \in Vols : unflushed(v) => recorded(v)

\* Detach copies only what has been flushed, region by region.
CopyInv ==
    pc = "copy" => /\ allUnmounted
                   /\ out = "new" => \A p \in 1..region : dst[p] = src[p]

\* The result of a Detach is forgotten as soon as anything else happens.
ReturnInv == pc # "idle" => ret.op # "detach"

ImageInv == /\ ImageType /\ VolumesInv /\ OwingRecorded /\ CopyInv /\ ReturnInv
            /\ DetachFlushesRecorded

-----------------------------------------------------------------------------
(***************************************************************************)
(* Volumes.                                                                *)
(***************************************************************************)

\* A volume's fields.
LEMMA VolumeType ==
    ASSUME ImageType, NEW v \in Vols
    PROVE  /\ vols[v] \in Volumes
           /\ vols[v].part \in Parts /\ vols[v].kind \in Kinds
           /\ vols[v].released \in BOOLEAN /\ vols[v].pending \subseteq Nat
<1>1. vols \in Seq(Volumes) /\ v \in 1..Len(vols)
  BY DEF ImageType, Vols
<1>2. vols[v] \in Volumes
  BY <1>1, ElementOfSeq
<1> QED BY <1>2 DEF Volumes

\* The Unmount of a driver, whether its flush succeeds or stops half-way: what
\* leaves the volume is on the file, a volume that has let go of its file stays
\* so, and a flush that succeeded left nothing pending in any other.
LEMMA FlushStep ==
    ASSUME ImageType, VolumesInv, NEW v \in Vols, flushOK(v) \/ flushFails(v)
    PROVE  \E gone \in SUBSET vols[v].pending, new \in Volumes :
              /\ src' = [src EXCEPT ![vols[v].part] = @ \cup gone]
              /\ vols' = [vols EXCEPT ![v] = new]
              /\ new.part = vols[v].part
              /\ new.pending \subseteq vols[v].pending
              /\ vols[v].pending \ gone \subseteq new.pending
              /\ new.released => new.kind = "fat"
              /\ vols[v].released => new.released
              /\ flushOK(v) => new.released \/ new.pending = {}
<1>1. PICK vol : vol = vols[v]
  OBVIOUS
<1>2. /\ vol \in Volumes /\ vol.part \in Parts /\ vol.kind \in Kinds
      /\ vol.released \in BOOLEAN /\ vol.pending \subseteq Nat
      /\ vol.released => vol.kind = "fat"
  BY <1>1, VolumeType DEF VolumesInv
<1>3. PICK rel : rel = releases(vol)
  OBVIOUS
<1>4. /\ rel \in Volumes /\ rel.part = vol.part /\ rel.kind = vol.kind
      /\ rel.pending = vol.pending /\ rel.released = (vol.kind = "fat")
  BY <1>2, <1>3 DEF releases, Volumes
<1>5. ASSUME NEW pend \in SUBSET vol.pending
      PROVE  LET new == [rel EXCEPT !.pending = pend]
             IN  /\ new \in Volumes /\ new.part = vol.part /\ new.kind = vol.kind
                 /\ new.pending = pend /\ new.released = (vol.kind = "fat")
  BY <1>2, <1>4 DEF Volumes
<1>6. CASE flushOK(v)
  <2> DEFINE gone == IF flushes(vol) THEN vol.pending ELSE {}
             pend == vol.pending \ gone
  <2>1. /\ src' = [src EXCEPT ![vol.part] = @ \cup gone]
        /\ vols' = [vols EXCEPT ![v] = [rel EXCEPT !.pending = @ \ gone]]
    BY <1>1, <1>3, <1>6 DEF flushOK
  <2>2. gone \in SUBSET vol.pending /\ pend \in SUBSET vol.pending
    OBVIOUS
  <2>3. pend = {} \/ vol.kind = "fat"
    BY DEF flushes
  <2> HIDE DEF gone
  <2>4. PICK new : new = [rel EXCEPT !.pending = pend]
    OBVIOUS
  <2>5. /\ new \in Volumes /\ new.part = vol.part /\ new.kind = vol.kind
        /\ new.pending = pend /\ new.released = (vol.kind = "fat")
    BY <1>5, <2>2, <2>4
  <2>6. vols' = [vols EXCEPT ![v] = new]
    BY <1>4, <2>1, <2>4
  <2> QED BY <1>1, <1>2, <2>1, <2>2, <2>3, <2>5, <2>6
<1>7. CASE flushFails(v) /\ ~flushOK(v)
  <2>1. PICK gone \in SUBSET vol.pending :
              /\ src' = [src EXCEPT ![vol.part] = @ \cup gone]
              /\ vols' = [vols EXCEPT ![v] = [rel EXCEPT !.pending = stillPending(vol, gone)]]
    BY <1>1, <1>3, <1>7 DEF flushFails
  <2>2. stillPending(vol, gone) \in SUBSET vol.pending /\ vol.pending \ gone \subseteq stillPending(vol, gone)
    BY DEF stillPending
  <2>3. PICK pend : pend = stillPending(vol, gone)
    OBVIOUS
  <2>4. PICK new : new = [rel EXCEPT !.pending = pend]
    OBVIOUS
  <2>5. /\ new \in Volumes /\ new.part = vol.part /\ new.kind = vol.kind
        /\ new.pending = pend /\ new.released = (vol.kind = "fat")
    BY <1>5, <2>2, <2>3, <2>4
  <2>6. vols' = [vols EXCEPT ![v] = new]
    BY <2>1, <2>3, <2>4
  <2>7. /\ src' = [src EXCEPT ![vols[v].part] = @ \cup gone]
        /\ vols' = [vols EXCEPT ![v] = new]
        /\ new.part = vols[v].part
        /\ new.pending \subseteq vols[v].pending
        /\ vols[v].pending \ gone \subseteq new.pending
        /\ new.released => new.kind = "fat"
        /\ vols[v].released => new.released
        /\ flushOK(v) => new.released \/ new.pending = {}
    BY <1>1, <1>2, <1>7, <2>1, <2>2, <2>3, <2>5, <2>6
  <2>8. gone \in SUBSET vols[v].pending /\ new \in Volumes
    BY <1>1, <2>5
  <2> QED BY <2>7, <2>8, Zenon
<1> QED BY <1>6, <1>7

\* Replacing one volume leaves the others alone.
LEMMA OneVolume ==
    ASSUME ImageType, NEW v \in Vols, NEW new \in Volumes, vols' = [vols EXCEPT ![v] = new]
    PROVE  /\ vols' \in Seq(Volumes) /\ Len(vols') = Len(vols) /\ Vols' = Vols
           /\ \A u \in Vols : vols'[u] = IF u = v THEN new ELSE vols[u]
<1>1. vols \in Seq(Volumes) /\ v \in 1..Len(vols)
  BY DEF ImageType, Vols
<1> HIDE DEF Volumes
<1>2. /\ [vols EXCEPT ![v] = new] \in Seq(Volumes)
      /\ Len([vols EXCEPT ![v] = new]) = Len(vols)
      /\ \A u \in 1..Len(vols) : [vols EXCEPT ![v] = new][u] = IF u = v THEN new ELSE vols[u]
  BY <1>1, ExceptSeq
<1> QED BY <1>2 DEF Vols

\* A volume more.
LEMMA NewVolume ==
    ASSUME ImageType, NEW p \in Parts, vols' = Append(vols, newVolume(p))
    PROVE  /\ vols' \in Seq(Volumes) /\ Len(vols) \in Nat
           /\ Len(vols') = Len(vols) + 1 /\ Vols' = Vols \cup {Len(vols) + 1}
           /\ \A u \in Vols : vols'[u] = vols[u]
           /\ vols'[Len(vols) + 1].pending = {} /\ ~vols'[Len(vols) + 1].released
<1>1. PICK new : new = newVolume(p)
  OBVIOUS
<1>2. new \in Volumes /\ new.pending = {} /\ ~new.released
  BY <1>1, ImageAssumption DEF newVolume, Volumes, Kinds
<1>3. vols \in Seq(Volumes) /\ vols' = Append(vols, new)
  BY <1>1 DEF ImageType
<1> HIDE DEF Volumes
<1>4. /\ vols' \in Seq(Volumes) /\ Len(vols) \in Nat /\ Len(vols') = Len(vols) + 1
      /\ \A u \in 1..Len(vols) : vols'[u] = vols[u]
      /\ vols'[Len(vols) + 1] = new
  BY <1>2, <1>3
<1> QED BY <1>2, <1>4 DEF Vols

\* What an Unmount does to the invariant's parts, whoever calls it.
LEMMA FlushKeeps ==
    ASSUME ImageType, VolumesInv, NEW v \in Vols, flushOK(v) \/ flushFails(v),
           UNCHANGED <<writes, promised>>
    PROVE  /\ vols' \in Seq(Volumes) /\ Len(vols') = Len(vols) /\ Vols' = Vols
           /\ src' \in [Parts -> SUBSET Nat]
           /\ \A u \in Vols : /\ vols'[u].pending \subseteq 1..writes
                              /\ vols'[u].released => vols'[u].kind = "fat"
           /\ \A u \in Vols : unflushed(u)' => unflushed(u)
           /\ flushOK(v) => ~unflushed(v)'
           /\ NothingLost => NothingLost'
<1>1. PICK gone \in SUBSET vols[v].pending, new \in Volumes :
              /\ src' = [src EXCEPT ![vols[v].part] = @ \cup gone]
              /\ vols' = [vols EXCEPT ![v] = new]
              /\ new.part = vols[v].part
              /\ new.pending \subseteq vols[v].pending
              /\ vols[v].pending \ gone \subseteq new.pending
              /\ new.released => new.kind = "fat"
              /\ vols[v].released => new.released
              /\ flushOK(v) => new.released \/ new.pending = {}
  BY FlushStep
<1>2. /\ vols' \in Seq(Volumes) /\ Len(vols') = Len(vols) /\ Vols' = Vols
      /\ \A u \in Vols : vols'[u] = IF u = v THEN new ELSE vols[u]
  BY <1>1, OneVolume
<1>3. PICK part : part = vols[v].part
  OBVIOUS
<1>4. part \in Parts /\ vols[v].pending \subseteq Nat /\ src \in [Parts -> SUBSET Nat]
  BY <1>3, VolumeType DEF ImageType
<1>5. /\ src' \in [Parts -> SUBSET Nat]
      /\ \A q \in Parts : src[q] \subseteq src'[q]
      /\ gone \subseteq src'[part]
  BY <1>1, <1>3, <1>4
<1>6. \A u \in Vols : /\ vols'[u].pending \subseteq 1..writes
                      /\ vols'[u].released => vols'[u].kind = "fat"
  <2> TAKE u \in Vols
  <2>1. /\ vols[u].pending \subseteq 1..writes /\ vols[v].pending \subseteq 1..writes
        /\ vols[u].released => vols[u].kind = "fat"
    BY DEF VolumesInv
  <2> QED BY <1>1, <1>2, <2>1
<1>7. \A u \in Vols : unflushed(u)' => unflushed(u)
  <2> TAKE u \in Vols
  <2>1. CASE u = v
    BY <1>1, <1>2, <2>1 DEF unflushed
  <2>2. CASE u # v
    BY <1>2, <2>2 DEF unflushed
  <2> QED BY <2>1, <2>2
<1>8. flushOK(v) => ~unflushed(v)'
  BY <1>1, <1>2 DEF unflushed
<1>9. ASSUME NothingLost PROVE NothingLost'
  <2>1. ASSUME NEW w \in 1..writes
        PROVE  \/ \E p \in Parts : w \in src'[p]
               \/ \E u \in Vols : w \in vols'[u].pending
    <3>1. CASE \E p \in Parts : w \in src[p]
      BY <1>5, <3>1
    <3>2. ASSUME NEW u \in Vols, w \in vols[u].pending
          PROVE  \/ \E p \in Parts : w \in src'[p]
                 \/ \E x \in Vols : w \in vols'[x].pending
      <4>1. CASE u # v
        BY <1>2, <3>2, <4>1
      <4>2. CASE u = v /\ w \in gone
        BY <1>4, <1>5, <4>2
      <4>3. CASE u = v /\ w \notin gone
        BY <1>1, <1>2, <3>2, <4>3
      <4> QED BY <4>1, <4>2, <4>3
    <3> QED BY <1>9, <3>1, <3>2 DEF NothingLost, Vols
  <2> QED BY <1>2, <2>1 DEF NothingLost, Vols
<1> QED BY <1>2, <1>5, <1>6, <1>7, <1>8, <1>9

-----------------------------------------------------------------------------
(***************************************************************************)
(* Every action preserves the invariant.                                   *)
(***************************************************************************)

\* A freshly attached image.
LEMMA ImageInitInv == Init => ImageInv /\ NothingLost
<1> SUFFICES ASSUME Init PROVE ImageInv /\ NothingLost
  OBVIOUS
<1>1. vols = <<>>
  BY Zenon DEF Init
<1>2. writes = 0 /\ promised = {}
  BY Zenon DEF Init
<1>3. pc = "idle" /\ out = ""
  BY Zenon DEF Init
<1>4. region = 0
  BY Zenon DEF Init
<1>5. ret = NoReturn /\ NoReturn \in Returns /\ NoReturn.op = "none"
  BY DEF Init, NoReturn, Returns
<1>6. ImageType
  <2>1. vols \in Seq(Volumes)
    BY <1>1
  <2>2. mounts \in [Parts -> Nat] /\ src \in [Parts -> SUBSET Nat] /\ dst \in [Parts -> SUBSET Nat]
    BY DEF Init
  <2>3. region \in 0..NumParts
    <3>1. NumParts \in Nat
      BY ImageAssumption, Zenon
    <3> QED BY <1>4, <3>1
  <2>4. writes \in Nat /\ promised \subseteq 1..writes
    BY <1>2
  <2> QED BY <1>3, <1>5, <2>1, <2>2, <2>3, <2>4 DEF ImageType
<1>7. Vols = {} /\ Len(vols) = 0
  BY <1>1 DEF Vols
<1>8. VolumesInv /\ OwingRecorded
  <2>1. \A p \in Parts : mounts[p] = 0
    BY DEF Init
  <2> QED BY <1>7, <2>1 DEF VolumesInv, OwingRecorded
<1>9. CopyInv /\ ReturnInv /\ DetachFlushesRecorded
  BY <1>3, <1>5 DEF CopyInv, ReturnInv, DetachFlushesRecorded
<1>10. NothingLost
  <2>1. 1..writes = {}
    BY <1>2
  <2> QED BY <2>1 DEF NothingLost
<1> QED BY <1>6, <1>8, <1>9, <1>10 DEF ImageInv

\* Mount returns the recorded volume: nothing but the last result is forgotten.
LEMMA MountCachedInv ==
    ASSUME ImageInv, NEW p \in Parts, MountCached(p)
    PROVE  ImageInv' /\ (NothingLost => NothingLost')
<1>1. ret' = NoReturn /\ NoReturn \in Returns /\ NoReturn.op = "none"
  BY DEF MountCached, NoReturn, Returns
<1>2. ImageType' /\ VolumesInv' /\ OwingRecorded'
  BY <1>1 DEF ImageInv, MountCached, ImageType, VolumesInv, OwingRecorded, Vols, unflushed, recorded
<1>3. CopyInv' /\ ReturnInv' /\ DetachFlushesRecorded'
  BY <1>1 DEF ImageInv, MountCached, CopyInv, ReturnInv, DetachFlushesRecorded
<1>4. NothingLost => NothingLost'
  BY DEF MountCached, NothingLost
<1> QED BY <1>2, <1>3, <1>4 DEF ImageInv

\* A new volume owes nothing, whether the image records it or not.
LEMMA MountInv ==
    ASSUME ImageInv, NEW p \in Parts, Mount(p) \/ MountSubvol(p)
    PROVE  ImageInv' /\ (NothingLost => NothingLost')
<1>0. /\ ImageType /\ VolumesInv /\ OwingRecorded
      /\ pc = "idle" /\ vols' = Append(vols, newVolume(p)) /\ ret' = NoReturn
      /\ UNCHANGED <<src, dst, writes, promised, pc, out, region>>
      /\ \/ mounts' = mounts
         \/ mounts[p] = 0 /\ mounts' = [mounts EXCEPT ![p] = Len(vols) + 1]
  BY DEF ImageInv, Mount, MountSubvol
<1>1. ret' = NoReturn /\ NoReturn \in Returns /\ NoReturn.op = "none"
  BY <1>0 DEF NoReturn, Returns
<1>2. /\ vols' \in Seq(Volumes) /\ Len(vols) \in Nat
      /\ Len(vols') = Len(vols) + 1 /\ Vols' = Vols \cup {Len(vols) + 1}
      /\ \A u \in Vols : vols'[u] = vols[u]
      /\ vols'[Len(vols) + 1].pending = {} /\ ~vols'[Len(vols) + 1].released
  BY <1>0, NewVolume
<1>3. /\ mounts' \in [Parts -> Nat]
      /\ \A q \in Parts : mounts'[q] \in 0..(Len(vols) + 1)
      /\ \A q \in Parts : mounts[q] # 0 => mounts'[q] = mounts[q]
  <2>1. mounts \in [Parts -> Nat] /\ \A q \in Parts : mounts[q] \in 0..Len(vols)
    BY <1>0 DEF ImageType, VolumesInv
  <2> QED BY <1>0, <1>2, <2>1
<1>4. ImageType'
  BY <1>0, <1>1, <1>2, <1>3 DEF ImageType
<1>5. VolumesInv'
  BY <1>0, <1>2, <1>3 DEF VolumesInv
<1>6. OwingRecorded'
  <2> SUFFICES ASSUME NEW u \in Vols', unflushed(u)' PROVE recorded(u)'
    BY DEF OwingRecorded
  <2>1. u \in Vols
    BY <1>2 DEF unflushed
  <2>2. unflushed(u)
    BY <1>0, <1>2, <2>1 DEF unflushed
  <2>3. PICK q \in Parts : mounts[q] = u
    BY <1>0, <2>1, <2>2 DEF OwingRecorded, recorded
  <2>4. mounts[q] # 0
    BY <2>1, <2>3 DEF Vols
  <2> QED BY <1>3, <2>3, <2>4 DEF recorded
<1>7. CopyInv' /\ ReturnInv' /\ DetachFlushesRecorded'
  BY <1>0, <1>1 DEF CopyInv, ReturnInv, DetachFlushesRecorded
<1>8. ASSUME NothingLost PROVE NothingLost'
  <2>1. \A w \in 1..writes : \/ \E q \in Parts : w \in src'[q]
                             \/ \E u \in Vols' : w \in vols'[u].pending
    BY <1>0, <1>2, <1>8 DEF NothingLost, Vols
  <2> QED BY <1>0, <2>1 DEF NothingLost, Vols
<1> QED BY <1>4, <1>5, <1>6, <1>7, <1>8 DEF ImageInv

\* A write is promised only when the image will flush its volume.
LEMMA WriteInv ==
    ASSUME ImageInv, NEW v \in Vols, Write(v)
    PROVE  ImageInv' /\ (NothingLost => NothingLost')
<1>0. /\ ImageType /\ VolumesInv /\ OwingRecorded
      /\ pc = "idle" /\ ret' = NoReturn /\ writes' = writes + 1
      /\ vols' = [vols EXCEPT ![v].pending = @ \cup {writes + 1}]
      /\ promised' = IF recorded(v) THEN promised \cup {writes + 1} ELSE promised
      /\ UNCHANGED <<mounts, src, dst, pc, out, region>>
  BY DEF ImageInv, Write, recorded
<1>1. ret' = NoReturn /\ NoReturn \in Returns /\ NoReturn.op = "none"
  BY <1>0 DEF NoReturn, Returns
<1>2. PICK old : old = vols[v]
  OBVIOUS
<1>3. old \in Volumes /\ old.pending \subseteq 1..writes /\ writes \in Nat
      /\ (old.released => old.kind = "fat")
  BY <1>0, <1>2, VolumeType DEF VolumesInv, ImageType
<1>4. PICK new : new = [old EXCEPT !.pending = old.pending \cup {writes + 1}]
  OBVIOUS
<1>5. /\ new \in Volumes /\ new.pending = old.pending \cup {writes + 1}
      /\ new.released = old.released /\ new.kind = old.kind
  BY <1>3, <1>4 DEF Volumes
<1>6. vols' = [vols EXCEPT ![v] = new]
  BY <1>0, <1>2, <1>4
<1>7. /\ vols' \in Seq(Volumes) /\ Len(vols') = Len(vols) /\ Vols' = Vols
      /\ \A u \in Vols : vols'[u] = IF u = v THEN new ELSE vols[u]
  BY <1>0, <1>5, <1>6, OneVolume
<1>8. promised \subseteq 1..writes /\ promised' \subseteq 1..writes' /\ writes' \in Nat
  <2>1. promised \subseteq 1..writes
    BY <1>0 DEF ImageType
  <2>2. promised' = promised \/ promised' = promised \cup {writes + 1}
    BY <1>0
  <2>3. writes \in Nat /\ writes' = writes + 1
    BY <1>0, <1>3
  <2>4. ASSUME NEW w \in promised' PROVE w \in 1..(writes + 1)
    <3>1. w \in promised \/ w = writes + 1
      BY <2>2
    <3>2. writes \in Nat
      BY <2>3
    <3>3. CASE w \in promised
      <4>1. w \in 1..writes
        BY <2>1, <3>3, Zenon
      <4> QED BY <3>2, <4>1
    <3>4. CASE w = writes + 1
      BY <3>2, <3>4
    <3> QED BY <3>1, <3>3, <3>4, Zenon
  <2> QED BY <2>1, <2>3, <2>4
<1>9. ImageType'
  BY <1>0, <1>1, <1>7, <1>8 DEF ImageType
<1>10. VolumesInv'
  <2>1. ASSUME NEW u \in Vols
        PROVE  /\ vols'[u].pending \subseteq 1..writes'
               /\ vols'[u].released => vols'[u].kind = "fat"
    <3>1. vols[u].pending \subseteq 1..writes /\ (vols[u].released => vols[u].kind = "fat")
      BY <1>0 DEF VolumesInv
    <3> QED BY <1>0, <1>3, <1>5, <1>7, <3>1
  <2>2. \A p \in Parts : mounts'[p] \in 0..Len(vols')
    BY <1>0, <1>7 DEF VolumesInv
  <2> QED BY <1>7, <2>1, <2>2 DEF VolumesInv
<1>11. OwingRecorded'
  <2> SUFFICES ASSUME NEW u \in Vols, unflushed(u)' PROVE recorded(u)'
    BY <1>7 DEF OwingRecorded
  <2>1. CASE unflushed(u)
    BY <1>0, <2>1 DEF OwingRecorded, recorded
  <2>2. CASE ~unflushed(u)
    <3>1. ~vols[u].released /\ promised \cap vols[u].pending = {}
      BY <1>2, <1>5, <1>7, <2>2 DEF unflushed
    <3>2. PICK w \in promised' : w \in vols'[u].pending
      BY DEF unflushed
    <3>3. vols[u].pending \subseteq 1..writes
      BY <1>0 DEF VolumesInv
    <3>4. writes + 1 \notin vols[u].pending /\ writes + 1 \notin promised
      BY <1>3, <1>8, <3>3
    <3>5. u = v
      BY <1>0, <1>7, <3>1, <3>2, <3>4
    <3>6. recorded(v)
      BY <1>0, <1>2, <1>5, <1>7, <3>1, <3>2, <3>4, <3>5
    <3> QED BY <1>0, <3>5, <3>6 DEF recorded
  <2> QED BY <2>1, <2>2
<1>12. CopyInv' /\ ReturnInv' /\ DetachFlushesRecorded'
  BY <1>0, <1>1 DEF CopyInv, ReturnInv, DetachFlushesRecorded
<1>13. ASSUME NothingLost PROVE NothingLost'
  <2>1. ASSUME NEW w \in 1..writes'
        PROVE  \/ \E p \in Parts : w \in src'[p]
               \/ \E u \in Vols : w \in vols'[u].pending
    <3>1. CASE w = writes + 1
      BY <1>5, <1>7, <3>1
    <3>2. CASE w # writes + 1
      <4>1. w \in 1..writes
        BY <1>0, <1>3, <3>2
      <4>2. CASE \E p \in Parts : w \in src[p]
        BY <1>0, <4>2
      <4>3. ASSUME NEW u \in Vols, w \in vols[u].pending
            PROVE  w \in vols'[u].pending
        BY <1>2, <1>5, <1>7, <4>3
      <4> QED BY <1>13, <4>1, <4>2, <4>3 DEF NothingLost, Vols
    <3> QED BY <3>1, <3>2
  <2> QED BY <1>7, <2>1 DEF NothingLost, Vols
<1> QED BY <1>9, <1>10, <1>11, <1>12, <1>13 DEF ImageInv

\* Unmount by the volume's user.
LEMMA UnmountInv ==
    ASSUME ImageInv, NEW v \in Vols, Unmount(v)
    PROVE  ImageInv' /\ (NothingLost => NothingLost')
<1>0. /\ ImageType /\ VolumesInv /\ OwingRecorded /\ pc = "idle"
      /\ flushOK(v) \/ flushFails(v)
      /\ \E ok \in BOOLEAN : ret' = [op |-> "unmount", vol |-> v, ok |-> ok]
      /\ UNCHANGED <<mounts, dst, writes, promised, pc, out, region>>
  BY DEF ImageInv, Unmount
<1>1. ret' \in Returns /\ ret'.op = "unmount"
  <2>1. PICK ok \in BOOLEAN : ret' = [op |-> "unmount", vol |-> v, ok |-> ok]
    BY <1>0
  <2>2. v \in Nat
    BY DEF Vols
  <2> QED BY <2>1, <2>2 DEF Returns
<1>2. /\ vols' \in Seq(Volumes) /\ Len(vols') = Len(vols) /\ Vols' = Vols
      /\ src' \in [Parts -> SUBSET Nat]
      /\ \A u \in Vols : /\ vols'[u].pending \subseteq 1..writes
                         /\ vols'[u].released => vols'[u].kind = "fat"
      /\ \A u \in Vols : unflushed(u)' => unflushed(u)
      /\ NothingLost => NothingLost'
  BY <1>0, FlushKeeps
<1>3. ImageType'
  BY <1>0, <1>1, <1>2 DEF ImageType
<1>4. VolumesInv'
  BY <1>0, <1>2 DEF VolumesInv
<1>5. OwingRecorded'
  BY <1>0, <1>2 DEF OwingRecorded, recorded
<1>6. CopyInv' /\ ReturnInv' /\ DetachFlushesRecorded'
  BY <1>0, <1>1 DEF CopyInv, ReturnInv, DetachFlushesRecorded
<1> QED BY <1>2, <1>3, <1>4, <1>5, <1>6 DEF ImageInv

\* Detach is called.
LEMMA BeginDetachInv ==
    ASSUME ImageInv, NEW path \in OutPaths, BeginDetach(path)
    PROVE  ImageInv' /\ (NothingLost => NothingLost')
<1>1. ret' = NoReturn /\ NoReturn \in Returns /\ NoReturn.op = "none"
  BY DEF BeginDetach, NoReturn, Returns
<1>2. ImageType' /\ VolumesInv' /\ OwingRecorded'
  BY <1>1 DEF ImageInv, BeginDetach, ImageType, VolumesInv, OwingRecorded, Vols, unflushed, recorded
<1>3. CopyInv' /\ ReturnInv' /\ DetachFlushesRecorded'
  BY <1>1 DEF ImageInv, BeginDetach, CopyInv, ReturnInv, DetachFlushesRecorded
<1>4. NothingLost => NothingLost'
  BY DEF BeginDetach, NothingLost
<1> QED BY <1>2, <1>3, <1>4 DEF ImageInv

\* Detach's result.
LEMMA ReturnType ==
    ASSUME NEW ok \in BOOLEAN, returns(ok)
    PROVE  pc' = "idle" /\ ret' \in Returns /\ ret'.op = "detach" /\ ret'.ok = ok
BY DEF returns, Returns

\* One iteration of Detach's loop: a volume that is forgotten owes nothing.
LEMMA DetachUnmountInv ==
    ASSUME ImageInv, NEW p \in Parts, DetachUnmount(p)
    PROVE  ImageInv' /\ (NothingLost => NothingLost')
<1>0. /\ ImageType /\ VolumesInv /\ OwingRecorded /\ ReturnInv /\ pc = "unmount" /\ mounts[p] # 0
      /\ \/ flushOK(mounts[p]) /\ mounts' = [mounts EXCEPT ![p] = 0] /\ pc' = pc /\ ret' = ret
         \/ flushFails(mounts[p]) /\ returns(FALSE) /\ mounts' = mounts
      /\ UNCHANGED <<dst, writes, promised, out, region>>
  BY DEF ImageInv, DetachUnmount
<1>1. PICK v : v = mounts[p]
  OBVIOUS
<1>2. v \in Vols /\ mounts \in [Parts -> Nat]
  <2>1. mounts[p] \in 0..Len(vols) /\ mounts[p] # 0 /\ mounts \in [Parts -> Nat]
    BY <1>0 DEF VolumesInv, ImageType
  <2>2. Len(vols) \in Nat
    <3>1. vols \in Seq(Volumes)
      BY <1>0 DEF ImageType
    <3> QED BY <3>1, LenProperties
  <2> QED BY <1>1, <2>1, <2>2 DEF Vols
<1>3. flushOK(v) \/ flushFails(v)
  BY <1>0, <1>1
<1>4. /\ vols' \in Seq(Volumes) /\ Len(vols') = Len(vols) /\ Vols' = Vols
      /\ src' \in [Parts -> SUBSET Nat]
      /\ \A u \in Vols : /\ vols'[u].pending \subseteq 1..writes
                         /\ vols'[u].released => vols'[u].kind = "fat"
      /\ \A u \in Vols : unflushed(u)' => unflushed(u)
      /\ flushOK(v) => ~unflushed(v)'
      /\ NothingLost => NothingLost'
  BY <1>0, <1>2, <1>3, FlushKeeps
<1>5. /\ ret' \in Returns
      /\ \/ pc' = "unmount" /\ ret'.op # "detach"
         \/ pc' = "idle" /\ ~ret'.ok
  <2>1. CASE pc' = pc /\ ret' = ret
    BY <1>0, <2>1 DEF ImageType, ReturnInv
  <2>2. CASE returns(FALSE)
    BY <2>2, ReturnType
  <2> QED BY <1>0, <2>1, <2>2
<1>6. /\ mounts' \in [Parts -> Nat]
      /\ \A q \in Parts : mounts'[q] \in 0..Len(vols)
      /\ \A q \in Parts : q # p => mounts'[q] = mounts[q]
  <2>1. mounts' = mounts \/ mounts' = [mounts EXCEPT ![p] = 0]
    BY <1>0
  <2>2. \A q \in Parts : mounts[q] \in 0..Len(vols)
    BY <1>0 DEF VolumesInv
  <2>3. \A q \in Parts : mounts'[q] = mounts[q] \/ mounts'[q] = 0
    BY <1>2, <2>1
  <2>4. mounts' \in [Parts -> Nat] /\ \A q \in Parts : q # p => mounts'[q] = mounts[q]
    BY <1>2, <2>1
  <2>5. 0 \in 0..Len(vols)
    BY <1>2 DEF Vols
  <2> QED BY <2>2, <2>3, <2>4, <2>5
<1>7. ImageType'
  BY <1>0, <1>4, <1>5, <1>6 DEF ImageType
<1>8. VolumesInv'
  BY <1>0, <1>4, <1>6 DEF VolumesInv
<1>9. OwingRecorded'
  <2> SUFFICES ASSUME NEW u \in Vols, unflushed(u)' PROVE recorded(u)'
    BY <1>4 DEF OwingRecorded
  <2>1. PICK q \in Parts : mounts[q] = u
    BY <1>0, <1>4 DEF OwingRecorded, recorded
  <2>2. CASE q # p
    BY <1>6, <2>1, <2>2 DEF recorded
  <2>3. CASE q = p
    <3>1. u = v
      BY <1>1, <2>1, <2>3
    <3>2. ~flushOK(mounts[p])
      BY <1>1, <1>4, <3>1
    <3>3. mounts' = mounts
      BY <1>0, <3>2
    <3> QED BY <2>1, <3>3 DEF recorded
  <2> QED BY <2>2, <2>3
<1>10. CopyInv' /\ ReturnInv' /\ DetachFlushesRecorded'
  BY <1>5 DEF CopyInv, ReturnInv, DetachFlushesRecorded
<1> QED BY <1>4, <1>7, <1>8, <1>9, <1>10 DEF ImageInv

\* When no volume is recorded any more, none owes anything.
LEMMA NothingOwed ==
    ASSUME OwingRecorded, allUnmounted
    PROVE  \A v \in Vols : ~vols[v].released => promised \cap vols[v].pending = {}
<1> SUFFICES ASSUME NEW v \in Vols, unflushed(v) PROVE FALSE
  BY DEF unflushed
<1>1. PICK p \in Parts : mounts[p] = v
  BY DEF OwingRecorded, recorded
<1> QED BY <1>1 DEF allUnmounted, Vols

\* Detach in place.
LEMMA CloseInPlaceInv ==
    ASSUME ImageInv, CloseInPlace
    PROVE  ImageInv' /\ (NothingLost => NothingLost')
<1>0. /\ ImageType /\ VolumesInv /\ OwingRecorded /\ allUnmounted /\ out = ""
      /\ \E ok \in BOOLEAN : returns(ok)
      /\ UNCHANGED <<mounts, vols, src, dst, writes, promised, out, region>>
  BY DEF ImageInv, CloseInPlace
<1>1. pc' = "idle" /\ ret' \in Returns
  BY <1>0, ReturnType
<1>2. ImageType' /\ VolumesInv' /\ OwingRecorded'
  BY <1>0, <1>1 DEF ImageType, VolumesInv, OwingRecorded, Vols, unflushed, recorded
<1>3. CopyInv' /\ ReturnInv'
  BY <1>1 DEF CopyInv, ReturnInv
<1>4. DetachFlushesRecorded'
  <2>1. \A v \in Vols : ~vols[v].released => promised \cap vols[v].pending = {}
    BY <1>0, NothingOwed
  <2> QED BY <1>0, <2>1 DEF DetachFlushesRecorded, Vols
<1>5. NothingLost => NothingLost'
  BY <1>0 DEF NothingLost
<1> QED BY <1>2, <1>3, <1>4, <1>5 DEF ImageInv

\* Detach creates its target: an image that is not its own target is left alone.
LEMMA CreateOutInv ==
    ASSUME ImageInv, CreateOut
    PROVE  ImageInv' /\ (NothingLost /\ out # "same" => NothingLost')
<1>0. /\ ImageType /\ VolumesInv /\ OwingRecorded /\ ReturnInv /\ pc = "unmount" /\ allUnmounted
      /\ \/ emptied /\ pc' = "copy" /\ region' = 0 /\ ret' = ret
         \/ (emptied \/ UNCHANGED <<src, dst>>) /\ returns(FALSE) /\ region' = region
      /\ UNCHANGED <<mounts, vols, writes, promised, out>>
  BY DEF ImageInv, CreateOut
<1>1. src \in [Parts -> SUBSET Nat] /\ dst \in [Parts -> SUBSET Nat]
  BY <1>0 DEF ImageType
<1>2. /\ src' \in [Parts -> SUBSET Nat] /\ dst' \in [Parts -> SUBSET Nat]
      /\ out # "same" => src' = src
  <2>1. CASE emptied
    BY <1>1, <2>1 DEF emptied
  <2>2. CASE UNCHANGED <<src, dst>>
    BY <1>1, <2>2
  <2> QED BY <1>0, <2>1, <2>2
<1>3. /\ ret' \in Returns
      /\ \/ pc' = "copy" /\ ret'.op # "detach" /\ region' = 0
         \/ pc' = "idle" /\ ~ret'.ok /\ region' = region
  <2>1. CASE pc' = "copy" /\ region' = 0 /\ ret' = ret
    BY <1>0, <2>1 DEF ImageType, ReturnInv
  <2>2. CASE returns(FALSE) /\ region' = region
    BY <2>2, ReturnType
  <2> QED BY <1>0, <2>1, <2>2
<1>4. region' \in 0..NumParts
  <2>1. region \in 0..NumParts /\ NumParts \in Nat
    BY <1>0, ImageAssumption, Zenon DEF ImageType
  <2> QED BY <1>3, <2>1
<1>5. ImageType'
  BY <1>0, <1>2, <1>3, <1>4 DEF ImageType
<1>6. VolumesInv' /\ OwingRecorded'
  BY <1>0 DEF VolumesInv, OwingRecorded, Vols, unflushed, recorded
<1>7. CopyInv'
  <2>1. allUnmounted'
    BY <1>0 DEF allUnmounted
  <2>2. pc' = "copy" => 1..region' = {}
    BY <1>3
  <2> QED BY <2>1, <2>2 DEF CopyInv
<1>8. ReturnInv' /\ DetachFlushesRecorded'
  BY <1>3 DEF ReturnInv, DetachFlushesRecorded
<1>9. NothingLost /\ out # "same" => NothingLost'
  BY <1>0, <1>2 DEF NothingLost
<1> QED BY <1>5, <1>6, <1>7, <1>8, <1>9 DEF ImageInv

\* One region is copied.
LEMMA CopyRegionInv ==
    ASSUME ImageInv, CopyRegion
    PROVE  ImageInv' /\ (NothingLost => NothingLost')
<1>0. /\ ImageType /\ VolumesInv /\ OwingRecorded /\ ReturnInv /\ CopyInv /\ pc = "copy"
      /\ region < NumParts
      /\ \/ /\ dst' = [dst EXCEPT ![region + 1] = src[region + 1]]
            /\ region' = region + 1 /\ pc' = pc /\ ret' = ret
         \/ /\ \E part \in SUBSET src[region + 1] : dst' = [dst EXCEPT ![region + 1] = @ \cup part]
            /\ returns(FALSE) /\ region' = region
      /\ UNCHANGED <<mounts, vols, src, writes, promised, out>>
  BY DEF ImageInv, CopyRegion
<1>1. /\ src \in [Parts -> SUBSET Nat] /\ dst \in [Parts -> SUBSET Nat]
      /\ region \in 0..NumParts /\ NumParts \in Nat
  BY <1>0, ImageAssumption, Zenon DEF ImageType
<1>2. region + 1 \in Parts /\ region \in Nat
  BY <1>0, <1>1 DEF Parts
<1>3. PICK r : r = region + 1
  OBVIOUS
<1>4. dst' \in [Parts -> SUBSET Nat]
  <2>1. r \in Parts
    BY <1>2, <1>3
  <2>2. CASE dst' = [dst EXCEPT ![r] = src[r]]
    BY <1>1, <2>1, <2>2
  <2>3. ASSUME NEW part \in SUBSET src[r], dst' = [dst EXCEPT ![r] = @ \cup part]
        PROVE  dst' \in [Parts -> SUBSET Nat]
    BY <1>1, <2>1, <2>3
  <2> QED BY <1>0, <1>3, <2>2, <2>3
<1>5. /\ ret' \in Returns
      /\ \/ pc' = "copy" /\ ret'.op # "detach"
         \/ pc' = "idle" /\ ~ret'.ok
  <2>1. CASE pc' = pc /\ ret' = ret
    BY <1>0, <2>1 DEF ImageType, ReturnInv
  <2>2. CASE returns(FALSE)
    BY <2>2, ReturnType
  <2> QED BY <1>0, <2>1, <2>2
<1>6. region' \in 0..NumParts
  <2>1. region' = region \/ region' = region + 1
    BY <1>0
  <2>2. region < NumParts
    BY <1>0
  <2> QED BY <1>1, <2>1, <2>2
<1>7. ImageType'
  BY <1>0, <1>4, <1>5, <1>6 DEF ImageType
<1>8. VolumesInv' /\ OwingRecorded'
  BY <1>0 DEF VolumesInv, OwingRecorded, Vols, unflushed, recorded
<1>9. CopyInv'
  <2> SUFFICES ASSUME pc' = "copy"
               PROVE  allUnmounted' /\ (out' = "new" => \A p \in 1..region' : dst'[p] = src'[p])
    BY DEF CopyInv
  <2>1. allUnmounted'
    BY <1>0 DEF CopyInv, allUnmounted
  <2>2. dst' = [dst EXCEPT ![r] = src[r]] /\ region' = r /\ src' = src /\ out' = out
    BY <1>0, <1>3 DEF returns
  <2>3. out = "new" => \A p \in 1..region : dst[p] = src[p]
    BY <1>0 DEF CopyInv
  <2>4. ASSUME out = "new", NEW p \in 1..r PROVE dst'[p] = src[p]
    <3>1. p \in Parts /\ (p \in 1..region \/ p = r)
      BY <1>1, <1>2, <1>3 DEF Parts
    <3> QED BY <1>1, <2>2, <2>3, <2>4, <3>1
  <2> QED BY <2>1, <2>2, <2>4
<1>10. ReturnInv' /\ DetachFlushesRecorded'
  BY <1>5 DEF ReturnInv, DetachFlushesRecorded
<1>11. NothingLost => NothingLost'
  BY <1>0 DEF NothingLost
<1> QED BY <1>7, <1>8, <1>9, <1>10, <1>11 DEF ImageInv

\* The copy is complete.
LEMMA SyncAndCloseInv ==
    ASSUME ImageInv, SyncAndClose
    PROVE  ImageInv' /\ (NothingLost => NothingLost')
<1>0. /\ ImageType /\ VolumesInv /\ OwingRecorded /\ CopyInv /\ pc = "copy" /\ region = NumParts
      /\ \E ok \in BOOLEAN : returns(ok)
      /\ UNCHANGED <<mounts, vols, src, dst, writes, promised, out, region>>
  BY DEF ImageInv, SyncAndClose
<1>1. pc' = "idle" /\ ret' \in Returns
  BY <1>0, ReturnType
<1>2. ImageType' /\ VolumesInv' /\ OwingRecorded'
  BY <1>0, <1>1 DEF ImageType, VolumesInv, OwingRecorded, Vols, unflushed, recorded
<1>3. CopyInv' /\ ReturnInv'
  BY <1>1 DEF CopyInv, ReturnInv
<1>4. DetachFlushesRecorded'
  <2>1. allUnmounted /\ (out = "new" => \A p \in Parts : dst[p] = src[p])
    BY <1>0 DEF CopyInv, Parts
  <2>2. \A v \in Vols : ~vols[v].released => promised \cap vols[v].pending = {}
    BY <1>0, <2>1, NothingOwed
  <2>3. out = "new" => dst = src
    <3>1. src \in [Parts -> SUBSET Nat] /\ dst \in [Parts -> SUBSET Nat]
      BY <1>0 DEF ImageType
    <3> QED BY <2>1, <3>1
  <2> QED BY <1>0, <2>2, <2>3 DEF DetachFlushesRecorded, Vols
<1>5. NothingLost => NothingLost'
  BY <1>0 DEF NothingLost
<1> QED BY <1>2, <1>3, <1>4, <1>5 DEF ImageInv

\* Every step.
LEMMA ImageNextInv ==
    ASSUME ImageInv, [Next]_vars
    PROVE  ImageInv' /\ (NothingLost /\ out # "same" => NothingLost')
<1>1. ASSUME NEW p \in Parts, Mount(p) \/ MountCached(p) \/ MountSubvol(p) \/ DetachUnmount(p)
      PROVE  ImageInv' /\ (NothingLost => NothingLost')
  BY <1>1, MountInv, MountCachedInv, DetachUnmountInv
<1>2. ASSUME NEW v \in 1..Len(vols), Write(v) \/ Unmount(v)
      PROVE  ImageInv' /\ (NothingLost => NothingLost')
  BY <1>2, WriteInv, UnmountInv DEF Vols
<1>3. ASSUME NEW path \in OutPaths, BeginDetach(path)
      PROVE  ImageInv' /\ (NothingLost => NothingLost')
  BY <1>3, BeginDetachInv
<1>4. CASE CloseInPlace \/ CopyRegion \/ SyncAndClose
  BY <1>4, CloseInPlaceInv, CopyRegionInv, SyncAndCloseInv
<1>5. CASE CreateOut
  BY <1>5, CreateOutInv
<1>6. CASE UNCHANGED vars
  <2>1. ImageType' /\ VolumesInv' /\ OwingRecorded'
    BY <1>6 DEF ImageInv, vars, ImageType, VolumesInv, OwingRecorded, Vols, unflushed, recorded
  <2>2. CopyInv' /\ ReturnInv' /\ DetachFlushesRecorded'
    BY <1>6 DEF ImageInv, vars, CopyInv, ReturnInv, DetachFlushesRecorded, allUnmounted
  <2>3. NothingLost => NothingLost'
    BY <1>6 DEF vars, NothingLost
  <2> QED BY <2>1, <2>2, <2>3 DEF ImageInv
<1> QED BY <1>1, <1>2, <1>3, <1>4, <1>5, <1>6 DEF Next

-----------------------------------------------------------------------------
(***************************************************************************)
(* The theorems.                                                           *)
(***************************************************************************)

\* A Detach that reports success has flushed every volume that img.mounts held,
\* whatever failed before and in whatever order its loop ran, and the file it
\* wrote is the image.
THEOREM DetachCorrect == Spec => []DetachFlushesRecorded
<1>1. Init => ImageInv
  BY ImageInitInv
<1>2. ImageInv /\ [Next]_vars => ImageInv'
  BY ImageNextInv
<1>3. ImageInv => DetachFlushesRecorded
  BY DEF ImageInv
<1> QED BY <1>1, <1>2, <1>3, PTL DEF Spec

\* No write that a volume accepted is ever lost, by a flush that fails half-way
\* or by a Detach that returns early: as long as Detach is not told to write to
\* the image itself, which os.Create would empty first.
THEOREM NothingLostCorrect ==
    ASSUME "same" \notin OutPaths
    PROVE  Spec => []NothingLost
<1>1. Init => ImageInv /\ NothingLost
  BY ImageInitInv
<1>2. ImageInv => out # "same"
  BY DEF ImageInv, ImageType
<1>3. (ImageInv /\ NothingLost) /\ [Next]_vars => (ImageInv /\ NothingLost)'
  BY <1>2, ImageNextInv
<1> QED BY <1>1, <1>3, PTL DEF Spec
=============================================================================
