-------------------------------- MODULE FAT ---------------------------------
(***************************************************************************)
(* The FAT32 reader, src/src/drivers/fat.c, under its callers: the shell's *)
(* cd, ls and cat, and the HTTP server, which runs in the network card's   *)
(* interrupt and so may break into a command of the shell anywhere.  Both  *)
(* share the static lfn_buffer and lfn_length, and the registers of the    *)
(* drive.                                                                  *)
(*                                                                         *)
(* A step is one call of read_next_entry, or one sector of a file; what is *)
(* printed is not kept.  A name is the sequence of its parts of up to 13   *)
(* characters, a short name being one part; a path is a sequence of names. *)
(*                                                                         *)
(* volume->fat is allocated but nothing is ever read into it: what the     *)
(* code finds there is any of FatValues, each time.                        *)
(***************************************************************************)
EXTENDS IDE, FiniteSets

CONSTANTS
  sectors_per_cluster, EntriesPerSector, SECTOR_SIZE, root_cluster,
  Drives,             \* drives: LBA or not (features), and where the data begin
  Disk,               \* contents of the sectors from there on: entries, or bytes
  NextCluster,        \* the table as it is on the disk, which the code does not read
  FatValues,          \* what may be found in volume->fat
  Upper,              \* toupper, on parts of names
  FullParts,          \* parts of 13 characters
  Buses,              \* drives that may be attached
  CdPaths, CatPaths,  \* what the user types
  IndexPath,          \* "/index.html"
  MaxRequests         \* bound: HTTP requests

ASSUME FATAssumption ==
  \A d \in Drives : d.features \/ d.data_start_sector + Len(Disk) <= CHSCapacity

EOC == -1             \* 0xFFFFFF, the end of a chain
None == "none"
NoResult == [cmd |-> None]
End == [attrib |-> "END"]
Erased == "?"         \* short name of a deleted entry, which begins with 0xE5
Junk == [attrib |-> "FILE", name |-> "junk", cluster |-> 0, size |-> 1]

VARIABLES
  g_ide_devices, drive,
  volume,             \* "zero", or "mounted"
  fat_root, current_path,
  lfn,                \* lfn_length and lfn_buffer
  call,               \* the call of each actor
  requests,           \* HTTP requests so far
  halted,             \* the CPU is in the handler of an exception
  result,             \* ghost: the call that has just ended
  rootClean           \* ghost: no HTTP request broke into the last cd

vars == <<g_ide_devices, drive, volume, fat_root, current_path, lfn, call, requests,
          halted, result, rootClean>>
boot == <<g_ide_devices, drive, volume>>
shellState == <<fat_root, current_path, rootClean>>

Actors == {"shell", "http"}
RootDir == [attrib |-> "DIR", cluster |-> root_cluster, size |-> 0]

(* pc: idle, mount, scan (in a directory) or read.  clean and torn: no     *)
(* other call overlaps with this one; the other call came between the      *)
(* registers and the data of a sector.  failed: a sector could not be read.*)
Idle == [pc |-> "idle", cmd |-> None, path |-> <<>>, goal |-> <<>>, file |-> RootDir,
         entry |-> 0, buffered |-> 0, buf |-> <<>>, left |-> 0, got |-> <<>>,
         clean |-> TRUE, torn |-> FALSE, failed |-> FALSE]

Name(n) == [i \in DOMAIN n |-> Upper[n[i]]]
fat32_strcasecmp(n, m) == Name(n) = Name(m)

-----------------------------------------------------------------------------
(* Sectors *)

cluster_to_sector(cluster) == drive.data_start_sector + (cluster - 2) * sectors_per_cluster

Blank == [ent |-> [i \in 1 .. EntriesPerSector |-> Junk],
          dat |-> [i \in 1 .. SECTOR_SIZE |-> "junk"]]

DataSectors == drive.data_start_sector .. (drive.data_start_sector + Len(Disk) - 1)

Content(s) == IF s \in DataSectors THEN Disk[s - drive.data_start_sector + 1] ELSE Blank

(* Contents that a read may deliver.  The drive may fail at any time; a    *)
(* read that another one has come into delivers anything.                  *)
disk_read_sector(c, s) ==
  IF c.torn THEN { Content(x) : x \in DataSectors \cup {0} }
  ELSE { Content(x) : x \in ide_read_sectors(s, drive.data_start_sector + Len(Disk), drive.features) }

-----------------------------------------------------------------------------
(* fat32_init_volume *)

g_fat32_drive ==
  LET ata == { i \in DOMAIN g_ide_devices : g_ide_devices[i].type = "ata" }
  IN IF ata = {} THEN 0 ELSE CHOOSE i \in ata : \A j \in ata : i <= j

(* Any of its reads and checks and allocations may fail, which the shell   *)
(* is not told: the cluster size stays zero, and mostly all of the volume. *)
fat32_init_volume ==
  /\ call["shell"].pc = "mount" /\ call["http"].pc = "idle" /\ ~halted
  /\ volume' \in IF g_fat32_drive = 0 THEN {"zero"} ELSE {"zero", "mounted"}
  /\ fat_root' = IF volume' = "mounted" THEN RootDir ELSE [RootDir EXCEPT !.cluster = 0]
  /\ call' = [call EXCEPT !["shell"] = Idle]
  /\ result' = NoResult
  /\ UNCHANGED <<g_ide_devices, drive, current_path, lfn, requests, halted, rootClean>>

-----------------------------------------------------------------------------
(* read_next_entry: the outcomes of one call, each the new state of the    *)
(* list and the entry found, End when the code returns NULL.               *)

EntriesPerCluster == sectors_per_cluster * EntriesPerSector

Chained(c) ==
  IF c.entry < EntriesPerCluster THEN {c}
  ELSE { [c EXCEPT !.file.cluster = v, !.entry = 0] : v \in FatValues }

Buffered(c) ==
  LET sector == cluster_to_sector(c.file.cluster) + c.entry \div EntriesPerSector
  IN IF c.buffered = sector THEN {c}
     ELSE { [c EXCEPT !.buf = x.ent, !.buffered = sector, !.torn = FALSE]
            : x \in disk_read_sector(c, sector) }

SectorFails(c) == [c |-> [c EXCEPT !.failed = TRUE, !.torn = FALSE], e |-> End]

(* With no volume mounted, the list never fills its buffer, or fills it    *)
(* from anywhere, and the entry is whatever is there.                      *)
read_next_entry(c) ==
  IF volume = "zero" THEN { [c |-> c, e |-> x] : x \in {End, Junk} }
  ELSE UNION { IF d.file.cluster = EOC THEN { [c |-> d, e |-> End] }
               ELSE {SectorFails(d)} \cup
                    { [c |-> [b EXCEPT !.entry = @ + 1],
                       e |-> b.buf[(b.entry % EntriesPerSector) + 1]] : b \in Buffered(d) }
               : d \in Chained(c) }

-----------------------------------------------------------------------------
(* fat32_next_dir_entry *)

NoName == [length |-> 0, parts |-> <<>>]

(* Mutant: a name that an error cuts off is kept for the next entry. *)
KeptAtEnd == lfn

AtEnd == [lfn EXCEPT !.length = 0]

(* parse_lfn_entry: the part goes to the place of its number. *)
parse_lfn_entry(e) ==
  IF e.seq = 0 THEN lfn
  ELSE [length |-> IF e.seq > lfn.length THEN e.seq ELSE lfn.length,
        parts |-> [i \in DOMAIN lfn.parts \cup {e.seq} |->
                     IF i = e.seq THEN e.part ELSE lfn.parts[i]]]

(* The parts are put together from the last to the first, and the name     *)
(* ends at the first part that is not full.  A part that is missing is     *)
(* what an earlier name has left there.                                    *)
LongName ==
  LET n == lfn.length
      part(i) == IF i \in DOMAIN lfn.parts THEN lfn.parts[i] ELSE "junk"
      last == part(n)
  IN IF last \in FullParts THEN [i \in 1 .. n |-> part(n + 1 - i)] ELSE <<last>>

parse_short_filename(e) == <<e.name>>

EntryName(e) == IF lfn.length > 0 THEN LongName ELSE parse_short_filename(e)

-----------------------------------------------------------------------------
(* The calls of one actor.  Ends(a, c, ok) leaves the result of the call   *)
(* behind; the shell and the server do not look at what the read returns.  *)

Ends(a, c, ok) ==
  /\ call' = [call EXCEPT ![a] = Idle]
  /\ result' = [cmd |-> c.cmd, goal |-> c.goal, found |-> c.path = <<>>, ok |-> ok,
                file |-> c.file, got |-> c.got, clean |-> c.clean, failed |-> c.failed]

GoesOn(a, c) == call' = [call EXCEPT ![a] = c] /\ result' = NoResult

Turn(a) == ~halted /\ (a = "shell" => call["http"].pc = "idle")

list_dir(c) == [c EXCEPT !.pc = "scan", !.entry = 0, !.buffered = 0, !.buf = <<>>]

(* Mutant: cd does not look what it has found. *)
EntersAnything(f) == TRUE

CanEnter(f) == f.attrib = "DIR"

(* fat32_find_file has found its file: cd changes to it if it is a         *)
(* directory; cat and the server allocate a buffer, which may fail.        *)
Found(a, c) ==
  \/ /\ c.cmd = "cd"
     /\ Ends(a, c, CanEnter(c.file))
     /\ IF CanEnter(c.file)
          THEN current_path' = c.goal /\ fat_root' = c.file /\ rootClean' = c.clean
          ELSE UNCHANGED shellState
  \/ /\ c.cmd \in {"cat", "http"}
     /\ \/ GoesOn(a, [c EXCEPT !.pc = "read", !.entry = 0, !.left = c.file.size])
        \/ Ends(a, [c EXCEPT !.failed = TRUE], FALSE)
     /\ UNCHANGED shellState

(* One entry of the directory that is searched for the next name. *)
Matches(a, c, e) ==
  LET rest == [c EXCEPT !.path = Tail(@),
                        !.file = [attrib |-> e.attrib, cluster |-> e.cluster, size |-> e.size]]
  IN IF rest.path = <<>> THEN Found(a, rest)
     ELSE /\ UNCHANGED shellState
          /\ IF e.attrib = "DIR" THEN GoesOn(a, list_dir(rest)) ELSE Ends(a, rest, FALSE)

Scan(a) ==
  /\ Turn(a) /\ call[a].pc = "scan"
  /\ \E o \in read_next_entry(call[a]) :
       \/ /\ o.e = End
          /\ lfn' = AtEnd
          /\ Ends(a, o.c, o.c.cmd = "ls")
          /\ UNCHANGED shellState
       \/ /\ o.e.attrib = "LFN"
          /\ lfn' = parse_lfn_entry(o.e)
          /\ GoesOn(a, o.c)
          /\ UNCHANGED shellState
       \/ /\ o.e.attrib \in {"DIR", "FILE"}
          /\ lfn' = [lfn EXCEPT !.length = 0]
          /\ IF o.c.cmd # "ls" /\ fat32_strcasecmp(EntryName(o.e), Head(o.c.path))
               THEN Matches(a, o.c, o.e)
               ELSE GoesOn(a, o.c) /\ UNCHANGED shellState
  /\ UNCHANGED <<boot, requests, halted>>

(* fat32_read_file, from offset 0: one sector, and behind the last sector  *)
(* of a cluster the next cluster.  On a zero volume the cluster size is 0, *)
(* and the division by it an exception.                                    *)

Least(i, j) == IF i < j THEN i ELSE j

(* Mutant: what has been read is not counted. *)
CopiesUncounted(c, x) == c

Copied(c, x) ==
  LET n == Least(c.left, SECTOR_SIZE)
  IN [c EXCEPT !.got = @ \o SubSeq(x.dat, 1, n), !.left = @ - n]

ReadSector(a) ==
  /\ Turn(a) /\ call[a].pc = "read" /\ volume = "mounted"
  /\ call[a].entry < sectors_per_cluster
  /\ LET c == call[a]
     IN \/ Ends(a, [c EXCEPT !.failed = TRUE], FALSE)
        \/ \E x \in disk_read_sector(c, cluster_to_sector(c.file.cluster) + c.entry) :
             LET d == [Copied(c, x) EXCEPT !.entry = @ + 1, !.torn = FALSE]
             IN IF d.left = 0 THEN Ends(a, d, TRUE) ELSE GoesOn(a, d)
  /\ UNCHANGED <<boot, shellState, lfn, requests, halted>>

ReadChain(a) ==
  /\ Turn(a) /\ call[a].pc = "read" /\ volume = "mounted"
  /\ call[a].entry = sectors_per_cluster
  /\ \E v \in FatValues :
       IF v = EOC THEN Ends(a, call[a], FALSE)
       ELSE GoesOn(a, [call[a] EXCEPT !.file.cluster = v, !.entry = 0])
  /\ UNCHANGED <<boot, shellState, lfn, requests, halted>>

DivideError(a) ==
  /\ Turn(a) /\ call[a].pc = "read" /\ volume = "zero"
  /\ halted' = TRUE
  /\ UNCHANGED <<boot, shellState, lfn, call, requests, result>>

Step(a) == Scan(a) \/ ReadSector(a) \/ ReadChain(a) \/ DivideError(a)

-----------------------------------------------------------------------------
(* The commands *)

(* path: absolute or not, and its names; "." is dropped, ".." takes the    *)
(* name before it, and none at the root.  Names have up to 12 characters,  *)
(* for which the code has room.                                            *)
Tokens(current, path) == IF path.abs THEN path.names ELSE current \o path.names

resolve_path(current, path) ==
  LET t == Tokens(current, path)
      components[i \in 0 .. Len(t)] ==
        IF i = 0 THEN <<>>
        ELSE LET before == components[i - 1]
             IN CASE t[i] = <<".">> -> before
                  [] t[i] = <<"..">> ->
                       IF before = <<>> THEN before ELSE SubSeq(before, 1, Len(before) - 1)
                  [] OTHER -> Append(before, Name(t[i]))
  IN components[Len(t)]

(* fat32_find_file begins at the root; the path "/" is found at once. *)
fat32_find_file(a, c) ==
  IF c.path = <<>> THEN Found(a, c) ELSE GoesOn(a, list_dir(c)) /\ UNCHANGED shellState

ShellIsFree == Turn("shell") /\ call["shell"].pc = "idle"
Searched(cmd, path) == [Idle EXCEPT !.cmd = cmd, !.path = path, !.goal = path,
                                    !.file = IF volume = "mounted" THEN RootDir
                                             ELSE [RootDir EXCEPT !.cluster = 0]]

Cd(path) ==
  /\ ShellIsFree
  /\ fat32_find_file("shell", Searched("cd", resolve_path(current_path, path)))
  /\ UNCHANGED <<boot, lfn, requests, halted>>

Ls ==
  /\ ShellIsFree /\ fat_root.attrib = "DIR"        \* or else nothing is listed
  /\ GoesOn("shell", list_dir([Idle EXCEPT !.cmd = "ls", !.file = fat_root, !.goal = current_path]))
  /\ UNCHANGED <<boot, shellState, lfn, requests, halted>>

(* The path goes to fat32_find_file as it is: from the root. *)
Cat(path) ==
  /\ ShellIsFree
  /\ fat32_find_file("shell", Searched("cat", path))
  /\ UNCHANGED <<boot, lfn, requests, halted>>

(* A request may come at any time, also within a command of the shell, and *)
(* there also between a command to the drive and its data.                 *)
HttpRequest ==
  /\ ~halted /\ call["http"].pc = "idle" /\ requests < MaxRequests
  /\ requests' = requests + 1
  /\ LET overlap == call["shell"].pc \in {"scan", "read"}
     IN \E torn \in IF overlap THEN BOOLEAN ELSE {FALSE} :
          call' = [shell |-> [call["shell"] EXCEPT !.clean = ~overlap, !.torn = torn],
                   http |-> list_dir([Searched("http", IndexPath)
                                        EXCEPT !.clean = ~overlap, !.torn = torn])]
  /\ result' = NoResult
  /\ UNCHANGED <<boot, shellState, lfn, halted>>

Halted == halted /\ UNCHANGED vars

Init ==
  /\ g_ide_devices \in { ide_init(bus) : bus \in Buses } /\ drive \in Drives
  /\ volume = "zero"
  /\ fat_root = [attrib |-> "FILE", cluster |-> 0, size |-> 0]
  /\ current_path = <<>>
  /\ lfn = NoName
  /\ call = [shell |-> [Idle EXCEPT !.pc = "mount"], http |-> Idle]
  /\ requests = 0 /\ halted = FALSE
  /\ result = NoResult /\ rootClean = TRUE

Next == \/ fat32_init_volume
        \/ \E p \in CdPaths : Cd(p)
        \/ Ls
        \/ \E p \in CatPaths : Cat(p)
        \/ HttpRequest
        \/ \E a \in Actors : Step(a)
        \/ Halted

(* A call that has the CPU goes on. *)
Spec == Init /\ [][Next]_vars /\ \A a \in Actors : WF_vars(Step(a))

-----------------------------------------------------------------------------
(* What the disk holds, read off without the code *)

InCluster(c, i) == LET n == (c - 2) * sectors_per_cluster + i + 1
                   IN IF n \in DOMAIN Disk THEN Disk[n] ELSE Blank
EntryAt(c, i) == InCluster(c, i \div EntriesPerSector).ent[(i % EntriesPerSector) + 1]
UsedEntries(c) == { i \in 0 .. (EntriesPerCluster - 1) : \A j \in 0 .. i : EntryAt(c, j) # End }

(* The parts before an entry, which are on the disk in reverse order. *)
PartsBefore(c, i) == CHOOSE k \in 0 .. i :
  /\ \A j \in (i - k) .. (i - 1) : EntryAt(c, j).attrib = "LFN"
  /\ k = i \/ EntryAt(c, i - k - 1).attrib # "LFN"
NameAt(c, i) == LET k == PartsBefore(c, i)
                IN IF k = 0 THEN <<EntryAt(c, i).name>>
                   ELSE [n \in 1 .. k |-> EntryAt(c, i - n).part]

FilesOf(c) == { i \in UsedEntries(c) : EntryAt(c, i).attrib # "LFN" /\ EntryAt(c, i).name # Erased }

Named(c, n) ==
  { LET e == EntryAt(c, i) IN [attrib |-> e.attrib, cluster |-> e.cluster, size |-> e.size]
    : i \in { j \in FilesOf(c) : Name(NameAt(c, j)) = Name(n) } }

OnDisk(path) ==
  LET at[i \in 0 .. Len(path)] ==
        IF i = 0 THEN {RootDir}
        ELSE UNION { IF f.attrib = "DIR" THEN Named(f.cluster, path[i]) ELSE {} : f \in at[i - 1] }
  IN at[Len(path)]

Bytes(file) ==
  LET chain[i \in 0 .. file.size] == IF i = 0 THEN file.cluster ELSE NextCluster[chain[i - 1]]
      byte(k) == LET s == k \div SECTOR_SIZE
                 IN InCluster(chain[s \div sectors_per_cluster],
                              s % sectors_per_cluster).dat[(k % SECTOR_SIZE) + 1]
  IN [k \in 1 .. file.size |-> byte(k - 1)]

-----------------------------------------------------------------------------
(* Properties *)

(* The calls, the static state of the reader and the shell are well formed.*)
TypeOK ==
  /\ \A a \in Actors : /\ call[a].pc \in {"idle", "mount", "scan", "read"}
                       /\ call[a].entry \in 0 .. EntriesPerCluster
                       /\ call[a].left \in Nat
  /\ lfn.length \in DOMAIN lfn.parts \cup {0}
  /\ volume \in {"zero", "mounted"}

(* The ended call, if its outcome is the code's doing: a volume is         *)
(* mounted, no other call came into it and no sector was unreadable.       *)
Ended(cmds) == /\ volume = "mounted"
               /\ result.cmd \in cmds /\ result.clean /\ ~result.failed

(* Parts of the names on the disk that have more than one.                 *)
PartsOfLongerNames ==
  LET Clusters == 2 .. (Len(Disk) \div sectors_per_cluster + 1)
      names == UNION { { NameAt(c, i) : i \in { j \in UsedEntries(c) : EntryAt(c, j).attrib # "LFN" } }
                       : c \in Clusters }
  IN UNION { { n[k] : k \in DOMAIN n } : n \in { m \in names : Len(m) > 1 } }

(* A path whose names are of one part, which is neither part of a longer   *)
(* name nor the mark of a deleted entry.                                   *)
Plain(path) ==
  \A i \in DOMAIN path :
    /\ Len(path[i]) = 1 /\ path[i][1] # Erased
    /\ Upper[path[i][1]] \notin { Upper[p] : p \in PartsOfLongerNames }

(* fat32_find_file finds the file that the disk has under a plain path,    *)
(* and only that, through any number of directories, however the calls     *)
(* before it ended: with an error, in the middle of a long name, or broken *)
(* into.  Other paths it gets wrong: a name of several parts is put        *)
(* together in reverse (fat.c:436) and found under what results, if that   *)
(* is a name at all, and deleted entries are found under theirs.           *)
LookupIsRight ==
  /\ Ended({"cd", "cat", "http"}) /\ Plain(result.goal)
       => (result.found <=> OnDisk(result.goal) # {})
  /\ Ended({"cd"}) /\ Plain(result.goal) /\ result.found => OnDisk(result.goal) = {result.file}
  /\ \A a \in Actors :
       /\ call[a].pc = "read" /\ volume = "mounted" /\ call[a].clean /\ call[a].got = <<>>
       /\ Plain(call[a].goal)
       => OnDisk(call[a].goal) = {call[a].file}

(* current_path, which is what the next cd starts from, and fat_root,      *)
(* which is what ls lists, stay the name and the place of one directory.   *)
PathNamesRoot ==
  volume = "mounted" /\ rootClean =>
    OnDisk(current_path) = {fat_root} /\ fat_root.attrib = "DIR"

(* A read that succeeds has delivered the bytes of the file as far as its  *)
(* first cluster goes, and a file within one cluster is always delivered:  *)
(* under the names, the plain ones, by which files are found.              *)
ReadIsExact ==
  TypeOK /\ (Ended({"cat", "http"}) /\ Plain(result.goal) =>
    LET inFirst == Least(result.file.size, sectors_per_cluster * SECTOR_SIZE)
        file == CHOOSE f \in OnDisk(result.goal) : TRUE
    IN /\ OnDisk(result.goal) # {} /\ file.size <= sectors_per_cluster * SECTOR_SIZE => result.ok
       /\ result.ok => /\ Len(result.got) = file.size
                       /\ SubSeq(result.got, 1, inFirst) = SubSeq(Bytes(file), 1, inFirst))

(* fat32_read_file ends, whatever it finds in the table: every cluster     *)
(* that it is led to delivers something.                                   *)
ReadsEnd == \A a \in Actors : (call[a].pc = "read") ~> (call[a].pc # "read" \/ halted)
=============================================================================
