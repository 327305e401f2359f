----------------------------- MODULE FinalPaths -----------------------------
(***************************************************************************)
(* The names of what is sent, from the sources the user picks to the files *)
(* in the receive directory: scan_sources and TransferManifest::validate   *)
(* on the sender, allocate_final_paths when an attempt begins and          *)
(* finalize_incoming when it ends on the receiver, several transfers into  *)
(* one directory at a time, and other programs creating files in it.       *)
(*                                                                         *)
(* A name is a sequence: a word, and the numbers suffixed_name has added,  *)
(* before the extension, which is left out.  A path is one name, or two    *)
(* inside a folder.  What is done to the characters of a name are four     *)
(* functions on words.  An item is <<i>> for the i-th source, and          *)
(* <<i, name>> for a file inside it when it is a folder.                   *)
(***************************************************************************)
EXTENDS Integers, FiniteSets, Sequences, Functions

CONSTANTS
    Words,          \* words of names
    Safe,           \* safe_manifest_name, on the sender
    Lower,          \* to_lowercase
    Clean,          \* sanitize_target_segment, on the receiver
    Fold,           \* words that are one to its file system have one Fold
    Transfers,      \* transfers into the directory
    Selections,     \* what the user may pick: sequences of sources
    MaxRetries,     \* bound: retries of all transfers
    MaxForeign,     \* bound: files other programs create
    MaxSuffix       \* bound: numbers a name may need

Program == "another program"

(* A word and its numbers.                                                 *)
IsName(name) == name = <<name[1]>> \o Tail(name) /\ name[1] \in Words /\ Tail(name) \in Seq(Nat)

(* One source from a picker on Android makes all of them such (the branch  *)
(* of scan_sources).                                                       *)
ASSUME FinalPathsAssumption ==
    /\ {Safe, Lower, Clean, Fold} \subseteq [Words -> Words]
    /\ \A w \in Words : Fold[Fold[w]] = Fold[w] /\ Lower[Lower[w]] = Lower[w]
    /\ \A s \in Selections :
          /\ Len(s) \in Nat /\ DOMAIN s = 1..Len(s)
          /\ \A i \in DOMAIN s :
                /\ IsName(s[i].name) /\ \A n \in s[i].inside : IsName(n)
                /\ s[i].kind \in {"file", "folder"} /\ IsFiniteSet(s[i].inside)
                /\ s[i].kind = "file" => s[i].inside = {}
                /\ s[i].picked \in BOOLEAN /\ (s[i].picked => s[i].kind = "file")
          /\ \A i, j \in DOMAIN s : s[i].picked = s[j].picked
    /\ Program \notin Transfers
    /\ {MaxRetries, MaxForeign, MaxSuffix} \subseteq Nat

VARIABLES
    picked,     \* the sources of each transfer
    manifest,   \* the relative path of each of its items
    pc,         \* "scan", "refused", then on the receiver "allocate",
                \* "files", "rename", "done" or "failed"
    retries,    \* retries of all transfers so far
    roots,      \* allocate_final_paths: from source roots to target roots
    final,      \* final_path of the items allocated so far
    todo,       \* items finalize_incoming has not dealt with
    item,       \* the one it is about to rename
    seen,       \* paths that existed when that one was checked
    disk,       \* what is in the receive directory, and who put it there
    foreign,    \* files other programs have created
    raced       \* paths of files that appeared after the check, and replaced

scanned == <<picked, manifest>>
directory == <<disk, foreign, raced>>
vars == <<scanned, pc, retries, roots, final, todo, item, seen, directory>>

NoItem == <<>>
Empty == [x \in {} |-> NoItem]

(* g, and f where f is defined.                                            *)
Over(f, g) == [x \in DOMAIN f \cup DOMAIN g |-> IF x \in DOMAIN f THEN f[x] ELSE g[x]]

Named(f, name) == [name EXCEPT ![1] = f[@]]
Folded(path) == [i \in DOMAIN path |-> Named(Fold, path[i])]

Items(sources) ==
    {<<i>> : i \in DOMAIN sources}
    \cup UNION {{<<i, n>> : n \in sources[i].inside} : i \in DOMAIN sources}

(* Entries of kind Directory.                                              *)
Directories(t) == {it \in Items(picked[t]) : Len(it) = 1 /\ picked[t][it[1]].kind = "folder"}

(* Path::exists.                                                           *)
Exists(path) == Folded(path) \in DOMAIN disk

TypeOK ==
    /\ picked \in [Transfers -> Selections]
    /\ pc \in [Transfers -> {"scan", "refused", "allocate", "files", "rename", "done", "failed"}]
    /\ retries \in 0..MaxRetries
    /\ \A t \in Transfers :
          /\ DOMAIN manifest[t] = IF pc[t] \in {"scan", "refused"} THEN {} ELSE Items(picked[t])
          /\ DOMAIN final[t] \subseteq Items(picked[t])
          /\ todo[t] \subseteq Items(picked[t])
          /\ (pc[t] = "rename") <=> (item[t] \in todo[t] \ Directories(t))
    /\ foreign \cup raced \subseteq DOMAIN disk
    /\ \A q \in DOMAIN disk : disk[q].by \in Transfers \cup {Program}

Init ==
    /\ picked \in [Transfers -> Selections]
    /\ manifest = [t \in Transfers |-> Empty]
    /\ pc = [t \in Transfers |-> "scan"]
    /\ retries = 0
    /\ roots = manifest /\ final = manifest
    /\ todo = [t \in Transfers |-> {}]
    /\ item = [t \in Transfers |-> NoItem]
    /\ seen = [t \in Transfers |-> {}] /\ disk = Empty
    /\ foreign = {} /\ raced = {}

Goto(t, place) == pc' = [pc EXCEPT ![t] = place]

-----------------------------------------------------------------------------
(* The sender.                                                             *)

(* suffixed_name, with 0 for the name itself.                              *)
Suffixed(name, i) == IF i = 0 THEN name ELSE Append(name, i)

(* unique_manifest_root: the first name the earlier sources have not,      *)
(* whatever the case of its letters.                                       *)
UniqueRoot(name, earlier) ==
    LET new(i) == Named(Lower, Suffixed(name, i)) \notin {Named(Lower, e) : e \in earlier}
    IN  Suffixed(name, CHOOSE i \in 0..Cardinality(earlier) :
                          new(i) /\ \A j \in 0..(i - 1) : ~new(j))

(* The roots of the sources, one after the other.  Files picked on Android *)
(* keep the names they have.                                               *)
Roots(sources) ==
    LET safe(i) == Named(Safe, sources[i].name)
        root[i \in 0..Len(sources)] ==
            IF i = 0 THEN <<>>
            ELSE Append(root[i - 1], IF sources[i].picked THEN safe(i)
                                     ELSE UniqueRoot(safe(i), Range(root[i - 1])))
    IN  root[Len(sources)]

(* scan_path.                                                              *)
Scanned(sources) ==
    [it \in Items(sources) |->
        IF Len(it) = 1 THEN <<Roots(sources)[it[1]]>>
        ELSE <<Roots(sources)[it[1]], Named(Safe, it[2])>>]

(* validate refuses a path that occurs twice.                              *)
Valid(paths) == IsInjective(paths)

(* Mutant: what is refused has been stored before. *)
ScanStores(t) ==
    /\ pc[t] = "scan"
    /\ manifest' = [manifest EXCEPT ![t] = Scanned(picked[t])]
    /\ Goto(t, IF Valid(manifest'[t]) THEN "allocate" ELSE "refused")
    /\ UNCHANGED <<picked, retries, roots, final, todo, item, seen, directory>>

(* send: nothing is stored of what is refused.                             *)
Scan(t) ==
    /\ pc[t] = "scan"
    /\ IF Valid(Scanned(picked[t]))
       THEN Goto(t, "allocate") /\ manifest' = [manifest EXCEPT ![t] = Scanned(picked[t])]
       ELSE Goto(t, "refused") /\ UNCHANGED manifest
    /\ UNCHANGED <<picked, retries, roots, final, todo, item, seen, directory>>

-----------------------------------------------------------------------------
(* The receiver, as an attempt begins: allocate_final_paths.               *)

(* Mutant: only the disk is asked. *)
FreeOnDisk(t, name) == ~Exists(<<name>>)

(* Nothing on the disk, and no other root of this transfer, has the name.  *)
Free(t, name) ==
    ~Exists(<<name>>) /\ Folded(<<name>>) \notin {Folded(<<r>>) : r \in Range(roots[t])}

(* unique_target_name: the first free one.                                 *)
Unique(t, name, i) ==
    Free(t, Suffixed(name, i)) /\ \A j \in 0..(i - 1) : ~Free(t, Suffixed(name, j))

Target(root, path) == [path EXCEPT ![1] = root]

(* One root, with the items that have it.  They come sorted by their       *)
(* paths; which root is first decides who keeps its name, not what is      *)
(* promised, and is left open.                                             *)
Allocate(t, source) ==
    /\ pc[t] = "allocate"
    /\ source \in {manifest[t][it][1] : it \in DOMAIN manifest[t]} \ DOMAIN roots[t]
    /\ \E i \in 0..MaxSuffix :
          LET root == Suffixed(Named(Clean, source), i)
              cleaned(path) == [j \in DOMAIN path |-> Named(Clean, path[j])]
              its == {it \in DOMAIN manifest[t] : manifest[t][it][1] = source}
          IN  /\ Unique(t, Named(Clean, source), i)
              /\ roots' = [roots EXCEPT ![t] = Over([s \in {source} |-> root], @)]
              /\ final' = [final EXCEPT ![t] =
                             Over([it \in its |-> Target(root, cleaned(manifest[t][it]))], @)]
    /\ UNCHANGED <<scanned, pc, retries, todo, item, seen, directory>>

-----------------------------------------------------------------------------
(* The receiver, as an attempt ends: finalize_incoming.                    *)

Put(path, what) == disk' = Over([q \in {Folded(path)} |-> what], disk)

(* All chunks have arrived, which may have taken any time.                 *)
Complete(t) ==
    /\ pc[t] = "allocate" /\ DOMAIN final[t] = DOMAIN manifest[t]
    /\ Goto(t, "files") /\ todo' = [todo EXCEPT ![t] = Items(picked[t])]
    /\ UNCHANGED <<scanned, retries, roots, final, item, seen, directory>>

(* create_dir_all: a folder that is there will do, a file will not.        *)
MakeFolder(t, it) ==
    LET path == final[t][it]
        made == [by |-> t, kind |-> "folder", item |-> it]
    IN  /\ pc[t] = "files" /\ it \in todo[t] \cap Directories(t)
        /\ IF Exists(path) /\ disk[Folded(path)].kind # "folder"
           THEN Goto(t, "failed") /\ UNCHANGED <<todo, disk>>
           ELSE /\ todo' = [todo EXCEPT ![t] = @ \ {it}]
                /\ IF Exists(path) THEN UNCHANGED disk ELSE Put(path, made)
                /\ UNCHANGED pc
        /\ UNCHANGED <<scanned, retries, roots, final, item, seen, foreign, raced>>

(* Mutant: it is not asked whether there is a file. *)
CheckNothing(t, it) ==
    /\ pc[t] = "files" /\ it \in todo[t] /\ todo[t] \cap Directories(t) = {}
    /\ Goto(t, "rename") /\ item' = [item EXCEPT ![t] = it]
    /\ seen' = [seen EXCEPT ![t] = DOMAIN disk]
    /\ UNCHANGED <<scanned, retries, roots, final, todo, directory>>

(* After the folders.  A file whose target has appeared fails the attempt  *)
(* (TargetAppeared).                                                       *)
Check(t, it) ==
    /\ pc[t] = "files" /\ it \in todo[t] /\ todo[t] \cap Directories(t) = {}
    /\ IF Exists(final[t][it])
       THEN Goto(t, "failed") /\ UNCHANGED <<item, seen>>
       ELSE Goto(t, "rename") /\ item' = [item EXCEPT ![t] = it]
            /\ seen' = [seen EXCEPT ![t] = DOMAIN disk]
    /\ UNCHANGED <<scanned, retries, roots, final, todo, directory>>

(* fs::rename replaces a file, and fails on a folder.                      *)
Rename(t) ==
    LET path == final[t][item[t]]
    IN  /\ pc[t] = "rename"
        /\ item' = [item EXCEPT ![t] = NoItem]
        /\ IF Exists(path) /\ disk[Folded(path)].kind = "folder"
           THEN Goto(t, "failed") /\ UNCHANGED <<todo, disk, raced>>
           ELSE /\ Goto(t, "files") /\ todo' = [todo EXCEPT ![t] = @ \ {item[t]}]
                /\ Put(path, [by |-> t, kind |-> "file", item |-> item[t]])
                /\ raced' = IF Exists(path) /\ Folded(path) \notin seen[t]
                            THEN raced \cup {Folded(path)} ELSE raced
        /\ seen' = [seen EXCEPT ![t] = {}]
        /\ UNCHANGED <<scanned, retries, roots, final, foreign>>

Finish(t) ==
    /\ pc[t] = "files" /\ todo[t] = {}
    /\ Goto(t, "done")
    /\ UNCHANGED <<scanned, retries, roots, final, todo, item, seen, directory>>

-----------------------------------------------------------------------------
(* Retries, and other programs.                                            *)

(* An attempt may break at any time before it finalizes.  The next one     *)
(* allocates anew, and receives what the earlier one had renamed again.    *)
Retry(t) ==
    /\ pc[t] \in {"allocate", "failed"} /\ retries < MaxRetries /\ retries' = retries + 1
    /\ roots' = [roots EXCEPT ![t] = Empty] /\ final' = [final EXCEPT ![t] = Empty]
    /\ todo' = [todo EXCEPT ![t] = {}]
    /\ Goto(t, "allocate")
    /\ UNCHANGED <<scanned, item, seen, directory>>

(* A name the file system admits.                                          *)
Foreign(w) ==
    /\ Cardinality(foreign) < MaxForeign /\ Clean[w] = w /\ ~Exists(<<<<w>>>>)
    /\ Put(<<<<w>>>>, [by |-> Program, kind |-> "file", item |-> NoItem])
    /\ foreign' = foreign \cup {Folded(<<<<w>>>>)}
    /\ UNCHANGED <<scanned, pc, retries, roots, final, todo, item, seen, raced>>

Step(t) ==
    \/ Scan(t) \/ Complete(t) \/ Rename(t) \/ Finish(t) \/ Retry(t)
    \/ \E it \in Items(picked[t]) : MakeFolder(t, it) \/ Check(t, it)
    \/ \E source \in {manifest[t][it][1] : it \in DOMAIN manifest[t]} : Allocate(t, source)

Next == (\E t \in Transfers : Step(t)) \/ (\E w \in Words : Foreign(w))

Spec == Init /\ [][Next]_vars

-----------------------------------------------------------------------------
(* Properties.                                                             *)

(* Every file stays where it was put: those of another program, and every  *)
(* one of the files of a transfer that has ended well, each at a place of  *)
(* its own.  Only a file that appeared between the check of a name and the *)
(* rename to it may be lost.                                               *)
Kept ==
    /\ \A q \in foreign \ raced : disk[q].by = Program
    /\ \A t \in Transfers : pc[t] = "done" =>
          \A it \in Items(picked[t]) :
             Folded(final[t][it]) \in raced
             \/ disk[Folded(final[t][it])].kind = "folder"
             \/ disk[Folded(final[t][it])] = [by |-> t, kind |-> "file", item |-> it]

(* Two files of one folder whose names become one.                         *)
Merge(t, f) ==
    \E it1, it2 \in Items(picked[t]) :
        /\ it1 # it2 /\ Len(it1) = 2 /\ Len(it2) = 2 /\ it1[1] = it2[1]
        /\ Named(f, it1[2]) = Named(f, it2[2])

(* Two files picked on Android, from different places, that have one name. *)
PickedTwice(t) ==
    \E i, j \in DOMAIN picked[t] :
        /\ i # j /\ picked[t][i].picked /\ picked[t][j].picked
        /\ Named(Safe, picked[t][i].name) = Named(Safe, picked[t][j].name)

(* The words of names inside a folder as the receiver's file system sees   *)
(* them.                                                                   *)
Received == [w \in Words |-> Fold[Clean[Safe[w]]]]

(* A transfer is refused, or fails on a name, only for a cause: two files  *)
(* of one folder that get one name, two picked on Android that have one,   *)
(* or somebody else who took a name after it was allocated.  Other sources *)
(* of one name, in any letters, and names the receiver has to change never *)
(* get in each other's way.                                                *)
FailsForCause ==
    \A t \in Transfers :
        /\ pc[t] = "refused" => Merge(t, Safe) \/ PickedTwice(t)
        /\ pc[t] = "failed" =>
              \/ Merge(t, Received)
              \/ \E it \in Items(picked[t]) :
                    Exists(final[t][it]) /\ disk[Folded(final[t][it])].by # t
=============================================================================
