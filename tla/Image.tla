------------------------------- MODULE Image -------------------------------
(***************************************************************************)
(* An attached image (attach.go, mount.go, detach.go): volumes are mounted *)
(* on its partitions, buffer what is written to them, and reach the image  *)
(* file when they are unmounted, by their user or by Detach; Detach then   *)
(* closes the file or copies it, region by region, to another one.         *)
(*                                                                         *)
(* A write is a number; a partition's contents are the set of writes that  *)
(* have reached it.  Every write of the host file system can fail.  The    *)
(* partitions are 1..NumParts, the regions of the map Detach walks; that   *)
(* the real map covers the whole file is the subject of RegionMap.         *)
(*                                                                         *)
(* Kinds of drivers, by what Unmount does:                                 *)
(*   "cached"  ext4, xfs: flush; the volume stays usable, a failed flush   *)
(*             keeps what it has not written                               *)
(*   "fat"     flush, then give up the writer, whether or not the flush    *)
(*             succeeded; later flushes do nothing and report success      *)
(*   "btrfs"   as "cached"; only btrfs has subvolumes, each mounted on its *)
(*             own and not recorded by the image                           *)
(***************************************************************************)
EXTENDS Integers, Sequences, FiniteSets

CONSTANTS NumParts,   \* number of partitions
          Kind,       \* the driver fstype.Detect selects for each partition
          OutPaths,   \* what Detach is called with: "" in place, "new", "same"
          MaxVols,    \* bound on Mount
          MaxWrites   \* bound on writes to volumes

Parts == 1..NumParts

ASSUME ImageAssumption ==
    /\ NumParts \in Nat \ {0}
    /\ Kind \in [Parts -> {"cached", "fat", "btrfs"}]
    /\ OutPaths \subseteq {"", "new", "same"}
    /\ MaxVols \in Nat
    /\ MaxWrites \in Nat

VARIABLES open,     \* img.f has not been closed
          mounts,   \* img.mounts: the volume of a partition, 0 if none
          vols,     \* all volumes Mount has returned
          src,      \* the image file, by partition
          dst,      \* the file Detach writes to
          writes,   \* number of writes accepted so far
          promised, \* the ones accepted while the image recorded the volume
          pc,       \* where Detach is; "idle" when no call is in progress
          out,      \* Detach's argument
          region,   \* number of regions copied
          ret       \* the last Unmount or Detach that returned

vars == <<open, mounts, vols, src, dst, writes, promised, pc, out, region, ret>>

NoReturn == [op |-> "none", vol |-> 0, ok |-> FALSE]

Init ==
    /\ open = TRUE
    /\ mounts = [p \in Parts |-> 0]
    /\ vols = <<>>
    /\ src = [p \in Parts |-> {}]
    /\ dst = [p \in Parts |-> {}]
    /\ writes = 0 /\ promised = {}
    /\ pc = "idle" /\ out = "" /\ region = 0
    /\ ret = NoReturn

newVolume(p) ==
    [part |-> p, kind |-> Kind[p], released |-> FALSE, pending |-> {}]

-----------------------------------------------------------------------------
(***************************************************************************)
(* Mount.  A volume that is recorded is returned again and nothing changes.*)
(***************************************************************************)
MountCached(p) ==
    /\ pc = "idle"
    /\ mounts[p] # 0
    /\ ret' = NoReturn
    /\ UNCHANGED <<open, mounts, vols, src, dst, writes, promised, pc, out, region>>

Mount(p) ==
    /\ pc = "idle" /\ open
    /\ mounts[p] = 0
    /\ Len(vols) < MaxVols
    /\ vols' = Append(vols, newVolume(p))
    /\ mounts' = [mounts EXCEPT ![p] = Len(vols) + 1]
    /\ ret' = NoReturn
    /\ UNCHANGED <<open, src, dst, writes, promised, pc, out, region>>

MountSubvol(p) ==
    /\ pc = "idle" /\ open
    /\ Kind[p] = "btrfs"
    /\ Len(vols) < MaxVols
    /\ vols' = Append(vols, newVolume(p))
    /\ ret' = NoReturn
    /\ UNCHANGED <<open, mounts, src, dst, writes, promised, pc, out, region>>

\* Any modifying operation of a volume: it succeeds in memory.  No driver asks
\* whether the volume has been unmounted or the image detached.
Write(v) ==
    /\ pc = "idle"
    /\ writes < MaxWrites
    /\ writes' = writes + 1
    /\ vols' = [vols EXCEPT ![v].pending = @ \cup {writes + 1}]
    /\ promised' = IF \E p \in Parts : mounts[p] = v
                   THEN promised \cup {writes + 1} ELSE promised
    /\ ret' = NoReturn
    /\ UNCHANGED <<open, mounts, src, dst, pc, out, region>>

-----------------------------------------------------------------------------
(***************************************************************************)
(* The Unmount of each driver, as a relation between the volume and the    *)
(* file before and after.  A flush stops at the first write that fails,    *)
(* having written some of what was pending.                                *)
(***************************************************************************)
flushes(vol) == vol.kind # "fat" \/ ~vol.released

\* A clean ext4 or xfs volume writes nothing; FAT always writes its tables and
\* btrfs its superblock.
mustWrite(vol) == flushes(vol) /\ (vol.kind # "cached" \/ vol.pending # {})

releases(vol) == [vol EXCEPT !.released = (vol.kind = "fat")]

flushOK(v) ==
    LET vol == vols[v]
        gone == IF flushes(vol) THEN vol.pending ELSE {}
    IN  /\ mustWrite(vol) => open
        /\ src' = [src EXCEPT ![vol.part] = @ \cup gone]
        /\ vols' = [vols EXCEPT ![v] = [releases(vol) EXCEPT !.pending = @ \ gone]]

\* Mutant of stillPending: the map of dirty blocks is replaced by an empty one.
stillPending_Cleared(vol, gone) == {}

\* ext4, xfs and btrfs delete a block from the map as they write it; FAT
\* empties the map after the last one.
stillPending(vol, gone) ==
    IF vol.kind = "fat" /\ gone # vol.pending THEN vol.pending ELSE vol.pending \ gone

flushFails(v) ==
    LET vol == vols[v]
    IN  /\ mustWrite(vol)
        /\ \E gone \in SUBSET vol.pending :
              /\ gone # {} => open
              /\ gone = vol.pending => vol.kind = "fat" \/ vol.pending = {}
              /\ src' = [src EXCEPT ![vol.part] = @ \cup gone]
              /\ vols' = [vols EXCEPT ![v] =
                            [releases(vol) EXCEPT !.pending = stillPending(vol, gone)]]

\* Unmount called by the volume's user.  The image keeps the volume recorded.
Unmount(v) ==
    /\ pc = "idle"
    /\ \/ flushOK(v)    /\ ret' = [op |-> "unmount", vol |-> v, ok |-> TRUE]
       \/ flushFails(v) /\ ret' = [op |-> "unmount", vol |-> v, ok |-> FALSE]
    /\ UNCHANGED <<open, mounts, dst, writes, promised, pc, out, region>>

-----------------------------------------------------------------------------
(***************************************************************************)
(* Detach.                                                                 *)
(***************************************************************************)
returns(ok) == /\ pc' = "idle" /\ ret' = [op |-> "detach", vol |-> 0, ok |-> ok]

BeginDetach(path) ==
    /\ pc = "idle"
    /\ pc' = "unmount"
    /\ out' = path
    /\ ret' = NoReturn
    /\ UNCHANGED <<open, mounts, vols, src, dst, writes, promised, region>>

\* Mutant of DetachUnmount: the first error does not stop the loop.
DetachUnmount_IgnoresError(p) ==
    /\ pc = "unmount"
    /\ mounts[p] # 0
    /\ flushOK(mounts[p]) \/ flushFails(mounts[p])
    /\ mounts' = [mounts EXCEPT ![p] = 0]
    /\ UNCHANGED <<open, dst, writes, promised, pc, out, region, ret>>

\* One iteration of the loop over img.mounts, in any order.  An error returns
\* with the file open and the volumes not yet reached still recorded.
DetachUnmount(p) ==
    /\ pc = "unmount"
    /\ mounts[p] # 0
    /\ \/ /\ flushOK(mounts[p])
          /\ mounts' = [mounts EXCEPT ![p] = 0]
          /\ UNCHANGED <<pc, ret>>
       \/ /\ flushFails(mounts[p])
          /\ returns(FALSE)
          /\ UNCHANGED mounts
    /\ UNCHANGED <<open, dst, writes, promised, out, region>>

allUnmounted == \A p \in Parts : mounts[p] = 0

CloseInPlace ==
    /\ pc = "unmount" /\ allUnmounted
    /\ out = ""
    /\ open' = FALSE
    /\ \E ok \in BOOLEAN : returns(ok) /\ (ok => open)
    /\ UNCHANGED <<mounts, vols, src, dst, writes, promised, out, region>>

\* os.Create and Truncate: the target becomes a file of zeros of the same
\* size.  When the target is the image itself, that empties the image.
emptied ==
    /\ dst' = [p \in Parts |-> {}]
    /\ src' = IF out = "same" THEN [p \in Parts |-> {}] ELSE src

CreateOut ==
    /\ pc = "unmount" /\ allUnmounted
    /\ out # ""
    /\ \/ /\ emptied
          /\ pc' = "copy" /\ region' = 0
          /\ UNCHANGED <<open, ret>>
       \/ /\ emptied \/ UNCHANGED <<src, dst>>   \* Truncate or os.Create failed
          /\ open' = FALSE
          /\ returns(FALSE)
          /\ UNCHANGED region
    /\ UNCHANGED <<mounts, vols, writes, promised, out>>

CopyRegion ==
    /\ pc = "copy"
    /\ region < NumParts
    /\ \/ /\ open
          /\ dst' = [dst EXCEPT ![region + 1] = src[region + 1]]
          /\ region' = region + 1
          /\ UNCHANGED <<open, pc, ret>>
       \/ /\ \E part \in SUBSET src[region + 1] :   \* a 32 KB step failed
                /\ part # {} => open
                /\ dst' = [dst EXCEPT ![region + 1] = @ \cup part]
          /\ open' = FALSE
          /\ returns(FALSE)
          /\ UNCHANGED region
    /\ UNCHANGED <<mounts, vols, src, writes, promised, out>>

SyncAndClose ==
    /\ pc = "copy"
    /\ region = NumParts
    /\ open' = FALSE
    /\ \E ok \in BOOLEAN : returns(ok)
    /\ UNCHANGED <<mounts, vols, src, dst, writes, promised, out, region>>

Next ==
    \/ \E p \in Parts : Mount(p) \/ MountCached(p) \/ MountSubvol(p) \/ DetachUnmount(p)
    \/ \E v \in 1..Len(vols) : Write(v) \/ Unmount(v)
    \/ \E path \in OutPaths : BeginDetach(path)
    \/ CloseInPlace \/ CreateOut \/ CopyRegion \/ SyncAndClose

Spec == Init /\ [][Next]_vars

-----------------------------------------------------------------------------
(***************************************************************************)
(* Properties.                                                             *)
(***************************************************************************)

\* An accepted write is on the file or still pending in a volume: a failed
\* flush, retried or not, in Unmount or half-way through Detach's loop, loses
\* nothing (the delete-as-written loops of flush).
NothingLost ==
    \A w \in 1..writes :
        \/ \E p \in Parts : w \in src[p]
        \/ \E v \in 1..Len(vols) : w \in vols[v].pending

\* A successful Detach has put every write that was made through a volume the
\* image records into the file it leaves behind, whatever failed before it and
\* in whatever order the loop over img.mounts ran: an error in the middle of
\* an earlier Detach leaves nothing half recorded.  A FAT volume that was
\* unmounted is left out: it lets go of its file even when its flush fails.
DetachFlushesRecorded ==
    (ret.op = "detach" /\ ret.ok) =>
        /\ \A v \in 1..Len(vols) :
              ~vols[v].released => promised \cap vols[v].pending = {}
        /\ out = "new" => dst = src

\* "changes are written to outPath and the original file is left untouched"
\* (detach.go).
OriginalUntouched ==
    [][(pc # "idle" /\ out = "new") => src' = src]_vars
=============================================================================
