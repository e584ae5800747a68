------------------------------ MODULE Namespace ------------------------------
(***************************************************************************)
(* The virtual file system: the mount list, the choice of a mount point    *)
(* for a path, and what the four file systems behind it make of the rest.  *)
(*                                                                         *)
(* A path is absolute and normal: the sequence of its names.  The choice   *)
(* is a substring search over text, so a mount point is also found in the  *)
(* middle of a path and at the start of a longer name; Extends gives the   *)
(* names that begin with another one.                                      *)
(***************************************************************************)
EXTENDS Integers, Sequences, FiniteSets, SequencesExt

CONSTANTS
    Rom,         (* the ROM image: "dir", "data" or "program" by path       *)
    Apps,        (* programs registered in the kernel image                 *)
    Drivers,     (* names of the registered drivers                         *)
    Extends      (* <<n, m>>: the name n is longer than m and begins with it *)

(* A normal path does not go up.                                            *)
IsNormal(path) == path \in Seq(Range(path)) /\ ".." \notin Range(path)

(* The names that the kernel gives, and that do not begin with one another. *)
ASSUME NamespaceAssumption ==
    /\ <<>> \in DOMAIN Rom /\ Rom[<<>>] = "dir"
    /\ \A q \in DOMAIN Rom : IsNormal(q) /\ Rom[q] \in {"dir", "data", "program"}
    /\ \A q \in DOMAIN Rom : q # <<>> => Front(q) \in DOMAIN Rom /\ Rom[Front(q)] = "dir"
    /\ \A n \in {"rom", "dev", "bin", "config", "shell.cfg", ".."} :
            \A m \in {"rom", "dev", "bin"} : <<n, m>> \notin Extends

VARIABLES
    mounts,      (* MountPoints::points_                                    *)
    ram,         (* RamFs::files_: "dir" or "data" by path                  *)
    drivers,     (* DeviceFs::drivers, their names in the order they came   *)
    apps         (* AppRegistry::apps_, the same                            *)

(* What a file is, as far as its users can tell; "none" is a null pointer.  *)
Kinds == {"none", "dir", "data", "program", "app", "apps", "device", "devices"}

(* The kinds whose stat says S_IFDIR: the root of DeviceFs has mode 0.      *)
IsDirectory(kind) == kind \in {"dir", "apps"}

MountAt(point, fs) == [point |-> point, fs |-> fs]

(* Length of a mount point's text: "/" or names of three letters.           *)
TextLength(point) == IF point = <<>> THEN 1 ELSE 4 * Len(point)

StartsWith(n, m) == n = m \/ <<n, m>> \in Extends

(* std::string_view::find of the mount point's text in the path's.          *)
OccursIn(point, path) ==
    \/ point = <<>>
    \/ \E i \in 0 .. Len(path) - Len(point) :
          /\ \A k \in 1 .. Len(point) - 1 : path[i + k] = point[k]
          /\ StartsWith(path[i + Len(point)], Last(point))

Longer(i, j) == TextLength(mounts[i].point) > TextLength(mounts[j].point)

(* The longest mount point that occurs in the path; of equals, the one      *)
(* mounted first.  0: there is none.                                        *)
BestMountLast(path) ==           (* fault: >= instead of >, the last of equals *)
    LET found == {i \in DOMAIN mounts : OccursIn(mounts[i].point, path)}
    IN  IF found = {} THEN 0
        ELSE CHOOSE i \in found : \A j \in found \ {i} : ~Longer(j, i) /\ (j > i => Longer(i, j))

BestMount(path) ==
    LET found == {i \in DOMAIN mounts : OccursIn(mounts[i].point, path)}
    IN  IF found = {} THEN 0
        ELSE CHOOSE i \in found : \A j \in found \ {i} : ~Longer(j, i) /\ (j < i => Longer(i, j))

(* eul::filesystem::path::lexically_relative: up from the mount point to    *)
(* what the two have in common, then down.                                  *)
Relative(path, point) ==
    LET common == CHOOSE k \in 0 .. Len(point) :
            /\ k <= Len(path) /\ SubSeq(path, 1, k) = SubSeq(point, 1, k)
            /\ k < Len(point) /\ k < Len(path) => path[k + 1] # point[k + 1]
    IN  [i \in 1 .. Len(point) - common |-> ".."] \o SubSeq(path, common + 1, Len(path))

(* list of DeviceFs and AppRegistry: all they have, whatever the path;      *)
(* every driver that is registered has a file.                              *)
DeviceList == Range(drivers)
AppList == Range(apps)

KindIn(tree, path) == IF path \in DOMAIN tree THEN tree[path] ELSE "none"

(* get of each file system.  DeviceFs looks at the last name only.          *)
RamGet(path) == IF path = <<>> THEN "dir" ELSE KindIn(ram, path)
RomGet(path) == KindIn(Rom, path)
AppGet(path) ==
    IF path = <<>> THEN "apps" ELSE IF path \in {<<a>> : a \in AppList} THEN "app" ELSE "none"
DeviceGet(path) ==
    IF path = <<>> THEN "devices" ELSE IF Last(path) \in DeviceList THEN "device" ELSE "none"

GetFrom(fs, path) ==
    CASE fs = "RamFs" -> RamGet(path)
      [] fs = "RomFS" -> RomGet(path)
      [] fs = "DevFs" -> DeviceGet(path)
      [] fs = "AppFs" -> AppGet(path)

Get(path) ==
    LET i == BestMount(path)
    IN  IF i = 0 THEN "none" ELSE GetFrom(mounts[i].fs, Relative(path, mounts[i].point))

Children(tree, path) ==
    {Last(q) : q \in {x \in DOMAIN tree : x # <<>> /\ Front(x) = path}}

(* list of the other two.                                                   *)
RamList(path) == Children(ram, path)
RomList(path) == IF RomGet(path) = "dir" THEN Children(Rom, path) ELSE {}

ListFrom(fs, path) ==
    CASE fs = "RamFs" -> RamList(path)
      [] fs = "RomFS" -> RomList(path)
      [] fs = "DevFs" -> DeviceList
      [] fs = "AppFs" -> AppList

List(path) ==
    LET i == BestMount(path)
    IN  IF i = 0 THEN {} ELSE ListFrom(mounts[i].fs, Relative(path, mounts[i].point))

(* opendir asks get whether there is something, and lists it.               *)
CanOpenDir(path) == Get(path) # "none"

(* RamFs::create: an existing entry stays the one that get finds.           *)
RamCreate(entry) ==
    [q \in DOMAIN ram \union {entry} |->
        IF q \in DOMAIN ram THEN ram[q] ELSE "data"]

(* The other file systems create nothing.                                   *)
Create(path) ==
    LET i == BestMount(path)
    IN  ram' = IF i # 0 /\ mounts[i].fs = "RamFs"
               THEN RamCreate(Relative(path, mounts[i].point)) ELSE ram

(* Vfs::mkdir is not called: the kernel makes directories in RamFs itself.  *)
WithDirectories(paths) ==
    [q \in DOMAIN ram \union paths |-> IF q \in DOMAIN ram THEN ram[q] ELSE "dir"]

NamespaceInit ==
    /\ mounts = <<>>
    /\ ram = [q \in {} |-> "dir"]
    /\ drivers = <<>> /\ apps = <<>>

(* REGISTER_DRIVER and REGISTER_APP: constructors of static objects append  *)
(* to the lists, in the order the linker gives them.                        *)
AddDriver(name) == drivers' = Append(drivers, name)

RegisterDriver(name) ==
    /\ name \in Drivers \ DeviceList
    /\ AddDriver(name)
    /\ UNCHANGED <<mounts, ram, apps>>

RegisterExecutable(name) ==
    /\ name \in Apps \ AppList
    /\ apps' = Append(apps, name)
    /\ UNCHANGED <<mounts, ram, drivers>>

AllRegistered == DeviceList = Drivers /\ AppList = Apps

-----------------------------------------------------------------------------

(* What a path should mean: of the mount points it goes through the last    *)
(* one owns it, and the rest is looked up there name by name.               *)
OwnersOf(path) == {i \in DOMAIN mounts : IsPrefix(mounts[i].point, path)}

Meaning(path) ==
    LET i == CHOOSE i \in OwnersOf(path) :
                \A j \in OwnersOf(path) : Len(mounts[j].point) <= Len(mounts[i].point)
        rest == SubSeq(path, Len(mounts[i].point) + 1, Len(path))
    IN  IF OwnersOf(path) = {} THEN "none"
        ELSE IF mounts[i].fs = "DevFs" /\ Len(rest) > 1 THEN "none"
        ELSE GetFrom(mounts[i].fs, rest)

(* The directories that a walk from the root comes to.                      *)
TreePaths(fs) ==
    CASE fs = "RamFs" -> DOMAIN ram \union {<<>>}
      [] fs = "RomFS" -> DOMAIN Rom
      [] OTHER        -> {<<>>}

Directories ==
    UNION {{mounts[i].point \o q : q \in {x \in TreePaths(mounts[i].fs) :
                GetFrom(mounts[i].fs, x) \in {"dir", "apps", "devices"}}} : i \in DOMAIN mounts}

(* A name that a listing shows leads, joined to the directory, to the file  *)
(* that stands there.                                                       *)
NamesLead ==
    \A d \in Directories : \A n \in List(d) :
        Get(Append(d, n)) = Meaning(Append(d, n)) /\ Get(Append(d, n)) # "none"
=============================================================================
