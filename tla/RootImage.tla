----------------------------- MODULE RootImage -----------------------------
(***************************************************************************)
(* Deploying the build-time Btrfs image (root_image.py): the check of the  *)
(* layout before a disk is wiped for it, the checks that make a partition  *)
(* disposable, the write under no mount, the new UUID, and the             *)
(* rearrangement that gives every subvolume and every FAT mount of the     *)
(* target layout the part of the image it is mounted over; then the files  *)
(* by which the installed system finds its root (phases_impl.py).          *)
(* Directories stand for the files in them: tree says where they are.      *)
(***************************************************************************)
EXTENDS Naturals, Sequences, FiniteSets, SequencesExt

CONSTANTS
    Dirs,      \* directories of the image that hold files: paths from /
    Names,     \* candidate subvolume names, as paths from the top level
    Mounts,    \* candidate mountpoints below /, as paths
    Standard,  \* top-level names of a protected install: STANDARD_SUBVOLUMES
    Disks      \* the target devices tried, see DiskType

At == <<"@">>
DiskType == [content : {"skeleton", "files", "foreign"}, single : BOOLEAN,
             fits : BOOLEAN, elsewhere : BOOLEAN, protected : BOOLEAN, luks : BOOLEAN]

ASSUME Paths == Dirs \cup Names \cup Mounts \subseteq Seq(STRING)
ASSUME RootInImage == <<>> \in Dirs
ASSUME AtIsAName == At \in Names /\ \A n \in Names : n # <<>>
ASSUME RootIsAtsMount == <<>> \notin Mounts
ASSUME DisksTyped == Disks \subseteq DiskType

VARIABLES
    pc,
    disk,     \* the device as found: content, members, size, mounts elsewhere;
              \* a free-space install's partition (protected), in a LUKS container
    layout,   \* subvolume name |-> mountpoint, as findmnt reported it
    fats,     \* mountpoints of the FAT filesystems
    dev,      \* what the device holds now
    uuid,     \* "own", the image's "template", "fresh"
    cached,   \* the UUID that blkid's cache and udev still have for the device
    cmdline,  \* what root= names: "none", the "partition", the "container", a UUID
    fstab,    \* the UUID of the root's lines: "none" before it is written
    mounted,  \* which of the target tree, the top level, a foreign place
    placed,   \* subvolumes that exist and hold their part
    tree,     \* directory of the image |-> where its files are
    stage,    \* the FAT staging directory in the state directory
    esp       \* whether leftovers of an earlier run reached a FAT filesystem

found == <<disk, layout, fats>>
device == <<dev, uuid, cached>>
files == <<placed, tree, stage, esp>>
boot == <<cmdline, fstab>>
vars == <<pc, found, device, mounted, files, boot>>

-----------------------------------------------------------------------------
(* Paths and layouts *)

Rest(path, prefix) == SubSeq(path, Len(prefix) + 1, Len(path))

(* What findmnt may report: @ at /, every other name at a place of its own. *)
Layouts ==
    {l \in UNION {[S \cup {At} -> Mounts \cup {<<>>}] : S \in SUBSET (Names \ {At})} :
        /\ l[At] = <<>> /\ \A n \in DOMAIN l \ {At} : l[n] # <<>>
        /\ IsInjective(l)}

Parents(l, n) == {o \in DOMAIN l : IsStrictPrefix(o, n)}
Parent(l, n) == CHOOSE o \in Parents(l, n) : \A q \in Parents(l, n) : Len(q) <= Len(o)

(* Variant: a nested subvolume may be mounted anywhere. *)
AcceptedAnywhere(l) == At \in DOMAIN l /\ l[At] = <<>> /\ IsInjective(l)

(* A nested subvolume lies at its place in the parent's mount, and no other    *)
(* subvolume is mounted between the two.                                       *)
Accepted(l) ==
    /\ At \in DOMAIN l /\ l[At] = <<>>
    /\ IsInjective(l)
    /\ \A n \in DOMAIN l : Parents(l, n) # {} =>
          LET parent == Parent(l, n) IN
          /\ l[n] = l[parent] \o Rest(n, parent)
          /\ \A o \in DOMAIN l \ {n, parent} :
                ~(/\ l[o] \notin {l[parent], l[n]}
                  /\ IsPrefix(l[o], l[n]) /\ IsPrefix(l[parent], l[o]))

(* Where a directory's files are: in the top level of the device, in the FAT   *)
(* staging directory, on a FAT filesystem, or nowhere.                         *)
Place(on, fs, at) == [on |-> on, fs |-> fs, at |-> at]
Lost == Place("lost", <<>>, <<>>)
Places == [on : {"btrfs", "stage", "fat", "lost"}, fs : Seq(STRING), at : Seq(STRING)]

Under(place, dir) == place.on = "btrfs" /\ IsPrefix(dir, place.at)

(* The deepest mount of a set of subvolumes over a path, and the path below it. *)
ImageDirectory(names, path) ==
    LET over == {n \in names : IsPrefix(layout[n], path)}
        deepest == CHOOSE n \in over : \A o \in over : Len(layout[o]) <= Len(layout[n])
    IN deepest \o Rest(path, layout[deepest])

(* The reference: the files of a directory belong to the deepest filesystem    *)
(* mounted over it.                                                            *)
Home(dir) ==
    LET over == {p \in fats : IsPrefix(p, dir)}
        home == ImageDirectory(DOMAIN layout, dir)
        covering == {p \in over : \A n \in DOMAIN layout :
                        IsPrefix(layout[n], dir) => Len(layout[n]) < Len(p)}
        deepest == CHOOSE p \in covering : \A q \in covering : Len(q) <= Len(p)
    IN IF covering = {} THEN Place("btrfs", <<>>, home)
       ELSE Place("fat", deepest, Rest(dir, deepest))

-----------------------------------------------------------------------------
Init ==
    /\ pc = "preflight"
    /\ disk \in Disks
    /\ layout \in Layouts
    /\ fats \in {F \in SUBSET Mounts : F \cap {layout[n] : n \in DOMAIN layout} = {}}
    /\ dev = disk.content /\ uuid = "own" /\ cached = "own"
    /\ mounted = (IF disk.protected THEN {"target"} ELSE {})
                  \cup (IF disk.elsewhere THEN {"elsewhere"} ELSE {})
    /\ placed = {} /\ tree = [d \in Dirs |-> Lost]
    /\ stage \in {"clean", "stale"} /\ esp = "clean"
    /\ cmdline = "none" /\ fstab = "none"

(* validate_layout, called first by prepare_live: the layout a disk is to be   *)
(* wiped for is one that the deployment will accept.                           *)
Preflight ==
    /\ pc = "preflight" /\ (disk.protected \/ Accepted(layout))
    /\ pc' = IF disk.protected THEN "survey" ELSE "wipe"
    /\ UNCHANGED <<found, device, mounted, files, boot>>

(* monarch-iso-cleanup-disk, and archinstall's new filesystem, mounted. *)
Wipe ==
    /\ pc = "wipe" /\ pc' = "survey"
    /\ dev' = "skeleton" /\ mounted' = mounted \cup {"target"}
    /\ UNCHANGED <<found, uuid, cached, files, boot>>

(* target_layout, the member count and the size, before anything is touched;   *)
(* then the top level is mounted for a look.                                   *)
Survey ==
    /\ pc = "survey" /\ pc' = "inspect"
    /\ Accepted(layout) /\ disk.single /\ disk.fits
    /\ mounted' = mounted \cup {"top"}
    /\ UNCHANGED <<found, device, files, boot>>

Allowed == IF disk.protected THEN Standard ELSE {n[1] : n \in DOMAIN layout}

(* assert_empty: only the known directories, and not one file in them. *)
Inspect ==
    /\ pc = "inspect" /\ pc' = "unmount"
    /\ dev = "skeleton" /\ {n[1] : n \in DOMAIN layout} \subseteq Allowed
    /\ mounted' = mounted \ {"top"}
    /\ UNCHANGED <<found, device, files, boot>>

(* unmount_tree gives up after twenty attempts (Fails). *)
UnmountTree ==
    /\ pc = "unmount" /\ pc' = "write"
    /\ mounted' = mounted \ {"target"}
    /\ UNCHANGED <<found, device, files, boot>>

(* Variant: unmounting the target is taken for unmounting the device. *)
WriteAnyway ==
    /\ pc = "write"
    /\ \/ pc' = "uuid" /\ dev' = "image" /\ uuid' = "template"
       \/ pc' = "failed" /\ dev' = "torn" /\ uuid' \in {"own", "template"}
    /\ cached' \in {cached, uuid'}
    /\ UNCHANGED <<found, mounted, files, boot>>

(* findmnt must not find the device any more; decoder and writer must both end *)
(* well, or are both killed, and the device holds part of an image.            *)
WriteImage ==
    /\ pc = "write" /\ mounted = {}
    /\ \/ pc' = "uuid" /\ dev' = "image" /\ uuid' = "template"
       \/ pc' = "failed" /\ dev' = "torn" /\ uuid' \in {"own", "template"}
    /\ cached' \in {cached, uuid'}
    /\ UNCHANGED <<found, mounted, files, boot>>

(* Variant: the change is made and not checked for. *)
RefreshLater ==
    /\ pc = "uuid" /\ pc' = "prepare" /\ uuid' \in {"template", "fresh"}
    /\ cached' = uuid'
    /\ UNCHANGED <<found, dev, mounted, files, boot>>

(* refresh_uuid: both probes see the new one within fifty attempts, or Fails. *)
RefreshUuid ==
    /\ pc = "uuid" /\ pc' = "prepare" /\ uuid' = "fresh" /\ cached' = "fresh"
    /\ UNCHANGED <<found, dev, mounted, files, boot>>

(* An old staging directory goes (ignore_errors: nothing on the tmpfs it is    *)
(* on is known to keep it), monarch-root becomes @.                            *)
Prepare ==
    /\ pc = "prepare" /\ pc' = "arrange"
    /\ mounted' = mounted \cup {"top"} /\ placed' = {At}
    /\ tree' = [d \in Dirs |-> Place("btrfs", <<>>, At \o d)]
    /\ stage' = "clean"
    /\ UNCHANGED <<found, device, esp, boot>>

-----------------------------------------------------------------------------
(* create_subvolume *)

Waiting == DOMAIN layout \ placed

(* Shallow mountpoints first, and of those the shallow names. *)
NextNames ==
    {n \in Waiting : \A o \in Waiting :
        \/ Len(layout[n]) < Len(layout[o])
        \/ Len(layout[n]) = Len(layout[o]) /\ Len(n) <= Len(o)}

(* A directory at the destination steps aside first, as the content itself or  *)
(* to be deleted with all it holds; then the content moves in.                 *)
Moved(place, content, name) ==
    IF Under(place, content) /\ (content = name \/ ~IsPrefix(name, place.at))
    THEN Place("btrfs", <<>>, name \o Rest(place.at, content))
    ELSE IF Under(place, name) THEN Lost ELSE place

(* Nothing is copied into itself. *)
CreateSubvolume ==
    /\ pc = "arrange"
    /\ \E name \in NextNames :
        LET content == ImageDirectory(placed, layout[name]) IN
        /\ ~IsStrictPrefix(content, name)
        /\ tree' = [d \in Dirs |-> Moved(tree[d], content, name)]
        /\ placed' = placed \cup {name}
    /\ UNCHANGED <<pc, found, device, mounted, stage, esp, boot>>

(* What a FAT mount does not take: other mounts below it. *)
Keep(p) ==
    {Rest(o, p) : o \in {q \in fats \cup {layout[n] : n \in placed} : IsStrictPrefix(p, q)}}

Takes(p, place) ==
    LET content == ImageDirectory(placed, p) IN
    /\ Under(place, content)
    /\ \A k \in Keep(p) : ~Under(place, content \o k)

(* copy_fat_tree for every FAT mount, then remove_fat_tree for every one. *)
StageBoot ==
    /\ pc = "arrange" /\ Waiting = {} /\ pc' = "remount"
    /\ tree' = [d \in Dirs |->
          LET takers == {p \in fats : Takes(p, tree[d])} IN
          IF takers = {} THEN tree[d]
          ELSE LET p == CHOOSE p \in takers : \A q \in takers : Len(p) <= Len(q)
               IN Place("stage", p, Rest(tree[d].at, ImageDirectory(placed, p)))]
    /\ mounted' = mounted \ {"top"}
    /\ UNCHANGED <<found, device, placed, stage, esp, boot>>

(* The mounts as they were found, outermost first. *)
Remount ==
    /\ pc = "remount" /\ pc' = "fill"
    /\ mounted' = mounted \cup {"target"}
    /\ UNCHANGED <<found, device, files, boot>>

(* The staged trees go on top of what the FAT filesystems hold already. *)
FillBoot ==
    /\ pc = "fill" /\ pc' = "verify"
    /\ tree' = [d \in Dirs |-> IF tree[d].on = "stage" THEN [tree[d] EXCEPT !.on = "fat"]
                               ELSE tree[d]]
    /\ esp' = IF fats # {} THEN stage ELSE esp
    /\ stage' = "clean"
    /\ UNCHANGED <<found, device, mounted, placed, boot>>

(* The required packages are there, and the machine gets its own identity. *)
Verify ==
    /\ pc = "verify" /\ pc' = "done"
    /\ UNCHANGED <<found, device, mounted, files, boot>>

-----------------------------------------------------------------------------
(* How the installed system finds its root *)

(* Variant: what blkid printed is taken as it comes; a value with undecodable  *)
(* bytes agrees with itself when it is read back.                              *)
IdentifierMangled == {cached, uuid, "mangled"}

(* capture_identifier: blkid answers from its cache or from the device;        *)
(* require_text refuses what was not decodable.                                *)
Identifier == {cached, uuid}

(* _write_limine_defaults: archinstall's parameters name the partition; a      *)
(* free-space install names the container, whose UUID the image did not touch, *)
(* or asks blkid.                                                              *)
WriteCmdline ==
    /\ pc = "done" /\ pc' = "keyring"
    /\ cmdline' \in (IF ~disk.protected THEN {"partition"}
                     ELSE IF disk.luks THEN {"container"} ELSE Identifier)
    /\ UNCHANGED <<found, device, mounted, files, fstab>>

(* The image has no signing keys; they are made on this machine. *)
InitializeKeyring ==
    /\ pc = "keyring" /\ pc' = "fstab"
    /\ UNCHANGED <<found, device, mounted, files, boot>>

(* _write_pre_mounted_fstab, or genfstab. *)
WriteFstab ==
    /\ pc = "fstab" /\ pc' = "validate" /\ fstab' \in Identifier
    /\ UNCHANGED <<found, device, mounted, files, cmdline>>

(* validate_boot reads the UUID again, and so the same answer. *)
ValidateFilesystems ==
    /\ pc = "validate" /\ pc' = "handed"
    /\ disk.protected => fstab \in Identifier
    /\ UNCHANGED <<found, device, mounted, files, boot>>

(* Any check, command or copy may fail; the top level is unmounted on the way. *)
Fails ==
    /\ pc \notin {"handed", "failed"} /\ pc' = "failed"
    /\ mounted' = mounted \ {"top"}
    /\ UNCHANGED <<found, device, files, boot>>

Next ==
    \/ Preflight \/ Wipe \/ Survey \/ Inspect \/ UnmountTree \/ WriteImage \/ RefreshUuid \/ Prepare
    \/ CreateSubvolume \/ StageBoot \/ Remount \/ FillBoot \/ Verify
    \/ WriteCmdline \/ InitializeKeyring \/ WriteFstab \/ ValidateFilesystems \/ Fails

Spec == Init /\ [][Next]_vars

-----------------------------------------------------------------------------
(* Properties *)

Pcs == {"preflight", "wipe", "survey", "inspect", "unmount", "write", "uuid", "prepare",
        "arrange", "remount", "fill", "verify", "done", "keyring", "fstab", "validate",
        "handed", "failed"}
UUIDs == {"own", "template", "fresh"}

TypeOK ==
    /\ pc \in Pcs /\ disk \in Disks
    /\ At \in DOMAIN layout /\ DOMAIN layout \subseteq Names /\ fats \subseteq Mounts
    /\ dev \in {"skeleton", "files", "foreign", "torn", "image"}
    /\ uuid \in UUIDs /\ cached \in UUIDs
    /\ mounted \subseteq {"target", "top", "elsewhere"}
    /\ placed \subseteq DOMAIN layout /\ DOMAIN tree = Dirs
    /\ stage \in {"clean", "stale"} /\ esp \in {"clean", "stale"}
    /\ cmdline \in UUIDs \cup {"none", "partition", "container"}
    /\ fstab \in UUIDs \cup {"none"}

(* Nothing is destroyed in vain or in error: a disk is wiped only for a layout *)
(* whose subvolumes the deployment accepts (validate_layout); and the image    *)
(* only ever replaces a filesystem that holds nothing but empty directories,   *)
(* is the single member, has room and is mounted nowhere (assert_empty,        *)
(* install).                                                                   *)
WritesOnlyDisposable ==
    [][dev' # dev =>
         IF dev' = "skeleton" THEN ~disk.protected /\ Accepted(layout)
         ELSE /\ dev = "skeleton" /\ disk.single /\ disk.fits
              /\ mounted = {}]_vars

(* A deployed root is never mounted under the UUID all images share: a second  *)
(* installation of the same image on this machine would answer to it.          *)
NeverMountedAsTemplate ==
    dev = "image" /\ mounted # {} => uuid = "fresh"

(* After a finished deployment the files of every directory of the image lie   *)
(* in the filesystem mounted deepest over it, none lost under a mount, in the  *)
(* staging directory or with a directory that stepped aside (create_subvolume, *)
(* copy_fat_tree), for every layout the checks accept; and what a FAT          *)
(* filesystem receives comes from this image, not from the staging directory   *)
(* of an attempt that failed.                                                  *)
NothingLost == pc = "done" => (\A d \in Dirs : tree[d] = Home(d)) /\ esp = "clean"

(* The system handed over looks for its root under the name the device now     *)
(* has: the UUID changes twice under the installer, blkid may answer from its  *)
(* cache, and the check at the end asks the same blkid (_blkid_uuid,           *)
(* capture_identifier, _validate_pre_mounted_filesystems).                     *)
NamesTheRoot ==
    pc = "handed" => fstab = uuid /\ cmdline \in {"partition", "container", uuid}

-----------------------------------------------------------------------------
(* The strengthening of RootImageProofs: what each place in the deployment     *)
(* knows of the device, and where the new UUID is in force.                    *)
Refreshed == {"prepare", "arrange", "remount", "fill", "verify", "done", "keyring",
              "fstab", "validate", "handed"}
Named == {"keyring", "fstab", "validate", "handed"}

DeviceInOrder ==
    /\ pc = "wipe" => ~disk.protected /\ Accepted(layout)
    /\ pc \in {"preflight", "wipe", "survey", "inspect", "unmount", "write"} => dev # "image"
    /\ pc \in {"inspect", "unmount", "write"} => disk.single /\ disk.fits
    /\ pc \in {"unmount", "write"} => dev = "skeleton"
    /\ pc = "uuid" => mounted = {}
    /\ pc \in Refreshed => uuid = "fresh" /\ cached = "fresh"
    /\ pc \in Named => cmdline \in {"partition", "container", "fresh"}
    /\ pc \in {"validate", "handed"} => fstab = "fresh"

(* The layout is one findmnt reports, and from the survey on an accepted one.  *)
LayoutInOrder ==
    /\ \A n \in DOMAIN layout : layout[n] \in (Mounts \cup {<<>>}) \ fats
    /\ layout[At] = <<>> /\ IsInjective(layout)
    /\ pc \notin {"preflight", "wipe", "survey", "failed"} => Accepted(layout)

(* Where a directory's files are before the FAT filesystems are filled.        *)
Waits(dir) == IF Home(dir).on = "fat" THEN [Home(dir) EXCEPT !.on = "stage"] ELSE Home(dir)

(* While subvolumes are made, every file lies in the deepest one made so far.  *)
FilesInOrder ==
    /\ esp = "clean"
    /\ pc \in {"arrange", "remount", "fill"} => stage = "clean"
    /\ pc = "arrange" =>
         /\ At \in placed
         /\ \A o \in placed, w \in Waiting : Len(layout[o]) <= Len(layout[w])
         /\ \A d \in Dirs : tree[d] = Place("btrfs", <<>>, ImageDirectory(placed, d))
    /\ pc \in {"remount", "fill"} => \A d \in Dirs : tree[d] = Waits(d)
    /\ pc \in {"verify", "done"} => \A d \in Dirs : tree[d] = Home(d)

IInv ==
    /\ TypeOK /\ DeviceInOrder /\ NeverMountedAsTemplate
    /\ LayoutInOrder /\ FilesInOrder
=============================================================================
