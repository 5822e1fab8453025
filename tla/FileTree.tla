------------------------------ MODULE FileTree ------------------------------
(***************************************************************************)
(* Directories in GrowingCrashFileUtils.c: a path is made a directory at a time, and  *)
(* the contents of one are deleted an entry at a time, while another thread makes    *)
(* and removes files.  A path is a sequence of names, "." and ".." among them.       *)
(***************************************************************************)
EXTENDS Integers, FiniteSets, SequencesExt, Functions

CONSTANTS
    Trees,             \* what is there at first: functions from paths to "dir", "file" or
                       \* "other", which is neither of them
    Deletable,         \* paths whose contents are deleted
    Makeable,          \* paths that are made
    Creatable,         \* files the other thread may make
    MaxCreated         \* bound: how many of them

VARIABLES
    origin,            \* what was there at first
    tree,              \* what there is
    task,              \* "delete" or "make"
    target,            \* the path
    frames,            \* calls of deletePathContents that are under way
    prefix,            \* how much of the path has been made
    outcome,           \* "new", "running", "yes" or "no"
    created            \* files of the other thread

vars == <<origin, tree, task, target, frames, prefix, outcome, created>>

\* The directory or file that a path leads to.
Resolve(path) ==
    FoldLeft(LAMBDA p, name : CASE name = "." -> p
                                [] name = ".." -> IF p = <<>> THEN p ELSE Front(p)
                                [] OTHER -> Append(p, name),
             <<>>, path)

Kind(path) == IF Resolve(path) \in DOMAIN tree THEN tree[Resolve(path)] ELSE "none"

\* What readdir returns, in any order.
EntriesOf(path) ==
    {".", ".."} \cup {Last(p) : p \in {q \in DOMAIN tree : q # <<>> /\ Front(q) = Resolve(path)}}

Removed(path) == Restrict(tree, DOMAIN tree \ {Resolve(path)})
Made(path, kind) == [p \in DOMAIN tree \cup {path} |-> IF p = path THEN kind ELSE tree[p]]

-----------------------------------------------------------------------------
(* Deleting.                                                               *)

\* "." and ".." lead back to the directory itself and out of it.
CanDeletePath(name) == name \notin {".", ".."}

\* deletePathContents begins: a file is removed, anything else but a directory stays.
Visit(path, also, callers) ==
    CASE Kind(path) = "dir" ->
            /\ frames' = Append(callers, [path |-> path, also |-> also, at |-> "count", count |-> 0, entries |-> {}])
            /\ UNCHANGED tree
      [] Kind(path) = "file" -> tree' = Removed(path) /\ frames' = callers
      [] OTHER -> frames' = callers /\ UNCHANGED tree

DeleteContentsOfPath ==
    /\ task = "delete" /\ outcome = "new"
    /\ IF CanDeletePath(Last(target)) /\ Kind(target) \in {"dir", "file"}
       THEN Visit(target, FALSE, <<>>) /\ outcome' = "running"
       ELSE outcome' = "no" /\ UNCHANGED <<tree, frames>>
    /\ UNCHANGED <<origin, task, target, prefix, created>>

Working == task = "delete" /\ frames # <<>>
Frame == Last(frames)
Callers == Front(frames)

\* dirContents: how many there are, and then their names, of which only so many are
\* taken if there are more by now.
DirContentsCount ==
    /\ Working /\ Frame.at = "count"
    /\ frames' = Append(Callers, [Frame EXCEPT !.at = "list", !.count = Cardinality(EntriesOf(Frame.path))])
    /\ UNCHANGED <<origin, tree, task, target, prefix, outcome, created>>

DirContents ==
    /\ Working /\ Frame.at = "list"
    /\ LET names == EntriesOf(Frame.path)
       IN \E entries \in SUBSET names :
             /\ Cardinality(entries) = IF Cardinality(names) > Frame.count THEN Frame.count ELSE Cardinality(names)
             /\ frames' = Append(Callers, [Frame EXCEPT !.at = "each", !.entries = entries])
    /\ UNCHANGED <<origin, tree, task, target, prefix, outcome, created>>

DeleteEntry ==
    /\ Working /\ Frame.at = "each"
    /\ \E name \in Frame.entries :
          LET rest == Append(Callers, [Frame EXCEPT !.entries = @ \ {name}])
          IN IF CanDeletePath(name) THEN Visit(Append(Frame.path, name), TRUE, rest)
             ELSE frames' = rest /\ UNCHANGED tree
    /\ UNCHANGED <<origin, task, target, prefix, outcome, created>>

\* The directory too, if nothing is in it, but not the one that was given.
DeletePath ==
    /\ Working /\ Frame.at = "each" /\ Frame.entries = {}
    /\ tree' = IF Frame.also /\ EntriesOf(Frame.path) = {".", ".."} THEN Removed(Frame.path) ELSE tree
    /\ frames' = Callers
    /\ UNCHANGED <<origin, task, target, prefix, outcome, created>>

Deleted ==
    /\ task = "delete" /\ outcome = "running" /\ frames = <<>>
    /\ outcome' = "yes"
    /\ UNCHANGED <<origin, tree, task, target, frames, prefix, created>>

-----------------------------------------------------------------------------
(* Making.                                                                 *)

\* mkdir of the next one: what is there already, even a file, is no error, but there
\* is nothing in a file, and a directory may fail for other reasons.
MakePath ==
    /\ task = "make" /\ outcome \in {"new", "running"}
    /\ LET path == SubSeq(target, 1, prefix + 1)
       IN \/ /\ \/ Kind(path) # "none" /\ UNCHANGED tree
                \/ Kind(path) = "none" /\ Kind(Front(path)) = "dir" /\ tree' = Made(path, "dir")
             /\ prefix' = prefix + 1
             /\ outcome' = IF path = target THEN "yes" ELSE "running"
          \/ /\ Kind(path) = "none"
             /\ outcome' = "no" /\ UNCHANGED <<tree, prefix>>
    /\ UNCHANGED <<origin, task, target, frames, created>>

-----------------------------------------------------------------------------
(* The other thread.                                                         *)

CreateFile ==
    /\ outcome # "yes" /\ Cardinality(created) < MaxCreated
    /\ \E path \in Creatable \ created :
          /\ Kind(path) = "none" /\ Kind(Front(path)) = "dir"
          /\ tree' = Made(path, "file") /\ created' = created \cup {path}
    /\ UNCHANGED <<origin, task, target, frames, prefix, outcome>>

RemoveFile ==
    /\ outcome # "yes"
    /\ \E path \in Creatable : Kind(path) = "file" /\ tree' = Removed(path)
    /\ UNCHANGED <<origin, task, target, frames, prefix, outcome, created>>

-----------------------------------------------------------------------------
Init ==
    /\ origin \in Trees /\ tree = origin
    /\ task \in {"delete", "make"}
    /\ target \in IF task = "delete" THEN Deletable ELSE Makeable
    /\ frames = <<>> /\ prefix = 0 /\ outcome = "new" /\ created = {}

Next ==
    \/ DeleteContentsOfPath
    \/ DirContentsCount
    \/ DirContents
    \/ DeleteEntry
    \/ DeletePath
    \/ Deleted
    \/ MakePath
    \/ CreateFile
    \/ RemoveFile

Spec == Init /\ [][Next]_vars

-----------------------------------------------------------------------------
(* Properties.                                                             *)

Beneath(path) == IsStrictPrefix(Resolve(target), path)
Stays(path) == path \in DOMAIN tree /\ tree[path] = origin[path]

\* Nothing but what is beneath the path is ever deleted, nor the directory itself, by
\* this thread; when it is done, nothing but what is no file and the directories
\* around that is left if the other has made no file in the meantime, and otherwise no
\* more entries than it has made files (deletePathContents, dirContents).
ContentsAreDeleted ==
    task = "delete" =>
        /\ \A path \in DOMAIN origin :
              Beneath(path) \/ path \in Creatable \/ Stays(path)
              \/ (path = Resolve(target) /\ origin[path] = "file")
        /\ outcome = "no" => \A path \in DOMAIN origin : path \in Creatable \/ Stays(path)
        /\ outcome = "yes" =>
              LET HasOther(p) == \E q \in DOMAIN tree : IsPrefix(p, q) /\ tree[q] = "other"
                  left == {p \in DOMAIN tree : Beneath(p) /\ ~HasOther(p)}
              IN /\ created = {} => left = {}
                 /\ Cardinality({p \in left : Front(p) = Resolve(target)}) <= Cardinality(created)

\* A path that was made is there, all of it directories but perhaps the last, which
\* may be a file that was in the way; whoever failed left what it made and what was
\* there (makePath).
PathIsMade ==
    task = "make" =>
        /\ outcome = "yes" => \A i \in 0 .. Len(target) :
              Kind(SubSeq(target, 1, i)) = "dir" \/ (i = Len(target) /\ Kind(target) # "none")
        /\ \A path \in DOMAIN origin : path \in Creatable \/ Stays(path)
        /\ \A path \in DOMAIN tree :
              path \in DOMAIN origin \/ path \in created \/ IsPrefix(path, target)

TreesAreWhole == ContentsAreDeleted /\ PathIsMade
=============================================================================
