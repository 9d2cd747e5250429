------------------------------- MODULE Overlayfs -------------------------------
(***************************************************************************)
(* The namespace operations of overlayfs (src/overlayfs/overlayfs.c): a     *)
(* writable upper tree over a read-only lower tree, joined through          *)
(* whiteouts and opaque directories, and the dentries that cache what a     *)
(* lookup found.                                                            *)
(*                                                                          *)
(* The trees have depth two: names of Top in the root, which may be         *)
(* directories, and names of Sub below those, which are not.  An operation  *)
(* is one step: the VFS holds the i_mutex of every overlay directory it     *)
(* changes.  Operations of the upper filesystem do not fail.                *)
(***************************************************************************)
EXTENDS Naturals, Sequences, FiniteSets

CONSTANTS Top, Sub

ASSUME NamesAreFinite == IsFiniteSet(Top) /\ IsFiniteSet(Sub)

VARIABLES
    lower,    \* the lower tree: path -> object; never changes
    upper,    \* the upper tree: path -> object
    dentry,   \* the overlay's dentry cache: path -> struct ovl_entry
    od,       \* an open file of the root directory: its cached listing
    tree,     \* what the operations that succeeded should have built
    misused   \* names of which an operation went wrong: see Wrong

vars == <<lower, upper, dentry, od, tree, misused>>

Root == << >>
TopPath == {<<n>> : n \in Top}
Path == TopPath \cup {<<n, m>> : n \in Top, m \in Sub}
Parent(p) == SubSeq(p, 1, Len(p) - 1)
Children(p) == {c \in Path : Parent(c) = p}
\* r, which is p or lies below it, with p replaced by q.
Rebase(r, p, q) == q \o SubSeq(r, Len(p) + 1, Len(r))
Under(p) == {p} \cup Children(p)
-------------------------------------------------------------------------------
(* Objects of the real filesystems.  The content of a file is the lower     *)
(* path it was copied from, or "new"; `same` is the set of names that are   *)
(* hard links to it.                                                        *)

Content == Path \cup {Root, <<"new">>}
New == <<"new">>
Nothing == [kind |-> "none", data |-> Root, opaque |-> FALSE, same |-> {}]
Whiteout == [Nothing EXCEPT !.kind = "whiteout"]
File(c, names) == [kind |-> "file", data |-> c, opaque |-> FALSE, same |-> names]
Directory(o) == [kind |-> "dir", data |-> Root, opaque |-> o, same |-> {}]
Object ==
    [kind : {"none", "whiteout", "file", "dir"}, data : Content,
     opaque : BOOLEAN, same : SUBSET Path]

\* struct ovl_entry, with whether the dentry is hashed.  `at` is where the upper
\* dentry it holds is: Unset if it holds none, Gone if somebody else removed or
\* replaced that one.  `inode` is the set of cached names that share the overlay
\* inode, and `moved` marks the dentry of a non-directory that a rename put here.
Unset == <<"unset">>
Gone == <<"gone">>
Dentry == [hashed : BOOLEAN, at : Path \cup {Unset, Gone}, low : BOOLEAN,
           opaque : BOOLEAN, moved : BOOLEAN, inode : SUBSET Path]
NoDentry == [hashed |-> FALSE, at |-> Unset, low |-> FALSE,
             opaque |-> FALSE, moved |-> FALSE, inode |-> {}]
RootDentry == [NoDentry EXCEPT !.hashed = TRUE, !.at = Root, !.low = TRUE]

\* The dentry of p, where d caches everything but the root.
At(d, p) == IF p = Root THEN RootDentry ELSE d[p]
IsUp(e) == e.at # Unset
Positive(e) == IsUp(e) \/ e.low
IsDirectory(p) ==
    IF p = Root THEN TRUE
    ELSE (IF IsUp(dentry[p]) THEN upper[p] ELSE lower[p]).kind = "dir"

ovl_path_type(p) ==
    IF ~IsUp(At(dentry, p)) THEN "LOWER"
    ELSE IF At(dentry, p).low /\ IsDirectory(p) THEN "MERGE" ELSE "UPPER"

\* ovl_lookup of p under a directory whose dentry is `dir`, in upper tree `up`.
Found(dir, up, p) ==
    LET u == IF IsUp(dir) THEN up[p] ELSE Nothing
        white == dir.low /\ u.kind = "whiteout"
        hides == white \/ (dir.low /\ u.kind = "dir" /\ u.opaque)
        l == IF dir.low /\ ~hides THEN lower[p] ELSE Nothing
        isUp == u.kind # "none" /\ ~white
        clash == isUp /\ l.kind # "none" /\ ~(u.kind = "dir" /\ l.kind = "dir")
    IN [hashed |-> TRUE, at |-> IF isUp THEN p ELSE Unset, low |-> l.kind # "none" /\ ~clash,
        opaque |-> hides \/ clash, moved |-> FALSE, inode |-> {p}]

\* What a lookup that finds nothing cached would make of p.
Fresh(p) ==
    IF Len(p) = 1 THEN Found(RootDentry, upper, p)
    ELSE LET dir == Found(RootDentry, upper, Parent(p))
             kind == (IF IsUp(dir) THEN upper ELSE lower)[Parent(p)].kind
         IN IF Positive(dir) /\ kind = "dir" THEN Found(dir, upper, p) ELSE NoDentry

\* The file, directory or absence that a process which looks p up meets.
\* A whiteout where nobody looks for whiteouts is a symbolic link to it.
Absent == [kind |-> "none", data |-> Root]
Seen(o) == [kind |-> IF o.kind = "whiteout" THEN "file" ELSE o.kind, data |-> o.data]
View(p) ==
    IF ~Positive(Fresh(p)) THEN Absent
    ELSE Seen((IF IsUp(Fresh(p)) THEN upper ELSE lower)[p])

\* Mistake: a lower entry is listed whether or not upper holds the name.
MergedNames_AllLower(p) ==
    {c \in Children(p) : upper[c].kind \in {"file", "dir"} \/ lower[c].kind # "none"}

\* The names ovl_dir_read_merged lists and does not mark as whiteouts.
MergedNames(p) ==
    LET inUpper(c) == IsUp(At(dentry, p)) /\ upper[c].kind # "none"
    IN {c \in Children(p) :
           IF inUpper(c) THEN upper[c].kind # "whiteout" ELSE lower[c].kind # "none"}

\* What ovl_readdir shows of p: the merged list, or that of the one real directory.
Listing(p) ==
    CASE ovl_path_type(p) = "MERGE" -> MergedNames(p)
      [] ovl_path_type(p) = "UPPER" -> {c \in Children(p) : upper[c].kind # "none"}
      [] ovl_path_type(p) = "LOWER" -> {c \in Children(p) : lower[c].kind # "none"}
-------------------------------------------------------------------------------
LowerTrees ==
    {t \in [Path -> {Nothing, Directory(FALSE)} \cup {File(p, {p}) : p \in Path}] :
        \A p \in Path :
            /\ t[p].kind = "file" => t[p] = File(p, {p})
            /\ Len(p) = 2 => t[p].kind # "dir"
            /\ Len(p) = 2 /\ t[p].kind # "none" => t[Parent(p)].kind = "dir"}

\* A mount with an empty upper directory.
Init ==
    /\ lower \in LowerTrees
    /\ upper = [p \in Path |-> Nothing]
    /\ dentry = [p \in Path |-> NoDentry]
    /\ od = [cached |-> FALSE, names |-> {}]
    /\ tree = [p \in Path |-> Seen(lower[p])]
    /\ misused = {}

\* Bound: names change no more once an operation has gone wrong.
Sound == misused = {} /\ UNCHANGED lower
-------------------------------------------------------------------------------
(* Steps that the operations share.  Each takes the upper tree and the      *)
(* dentries, as a record, and gives them back.                              *)

Now == [up |-> upper, d |-> dentry]

\* ovl_copy_up_one: a non-directory is dropped from the dentry cache, but
\* the caller goes on with its (unhashed) dentry.
CopiedUpOne(s, p) ==
    IF p = Root \/ IsUp(At(s.d, p)) THEN s
    ELSE [up |-> [s.up EXCEPT ![p] = IF lower[p].kind = "dir"
                                     THEN Directory(FALSE) ELSE File(p, {p})],
          d |-> [s.d EXCEPT ![p].at = p,
                            ![p].hashed = lower[p].kind = "dir"]]

\* Mistake: parents are not copied up first.
CopiedUp_NoParents(s, p) == CopiedUpOne(s, p)

\* ovl_copy_up: the topmost directory that is not copied up comes first.
CopiedUp(s, p) ==
    CopiedUpOne(IF p = Root THEN s ELSE CopiedUpOne(s, Parent(p)), p)

\* ovl_lookup_create finds the name free, or held by a whiteout it removes.
CanCreate(s, p) ==
    \/ s.up[p].kind = "none"
    \/ At(s.d, Parent(p)).low /\ s.up[p].kind = "whiteout"

\* Unhashed dentries, and those below one, are out of reach of a path walk.
Reachable(d) ==
    LET reached == {p \in Path : d[p].hashed /\ At(d, Parent(p)).hashed}
    IN [p \in Path |-> IF p \in reached THEN [d[p] EXCEPT !.inode = @ \cap reached]
                       ELSE NoDentry]

\* The upper tree with the whiteouts of directory p removed: ovl_remove_whiteouts.
WithoutWhiteouts(up, p) ==
    [c \in Path |-> IF c \in Children(p) /\ up[c].kind = "whiteout" THEN Nothing ELSE up[c]]

\* The upper tree after the name p is taken out of its file's set of links.
Unlinked(up, p) ==
    [c \in Path |-> IF c = p THEN Nothing ELSE [up[c] EXCEPT !.same = @ \ {p}]]

\* Mistake: only the path type is looked at.
NeedsWhiteout_IgnoresOpaque(p) == ovl_path_type(p) # "UPPER"

\* Whether removing the name p must leave a whiteout behind.
NeedsWhiteout(p) == ovl_path_type(p) # "UPPER" \/ dentry[p].opaque

\* Mistake: the version is not incremented.
VersionInc_Forgotten(p) == UNCHANGED od

\* ovl_dentry_version_inc of directory p: a listing of it is no longer current.
VersionInc(p) == od' = IF p = Root THEN [cached |-> FALSE, names |-> {}] ELSE od

\* The flag of dentry p says what a removal needs to know: it is set when
\* something in lower is hidden, and only where whiteouts are understood.
FlagRight(p) ==
    /\ Fresh(p).opaque => dentry[p].opaque
    /\ dentry[p].opaque => At(dentry, Parent(p)).low

\* The names that taking p away gets wrong: p when its flag is wrong, and both p
\* and the name its dentry holds when that is another one.
Wrong(p) ==
    IF IsUp(dentry[p]) /\ dentry[p].at # p THEN Under(p) \cup Under(dentry[p].at)
    ELSE IF dentry[p].moved /\ ~FlagRight(p) THEN Under(p) ELSE {}

\* What p's dentry holds is still there, in the upper directory of its parent.
Holds(p) ==
    /\ dentry[p].at # Gone
    /\ IsUp(dentry[p]) => Parent(dentry[p].at) = Parent(p)

\* The dentries after the upper name h is removed: nobody holds it any more.
Released(d, h) ==
    [r \in Path |-> [d[r] EXCEPT !.at = IF @ = h THEN Gone ELSE @]]

\* The dentries after the upper name h is renamed to n: who holds it follows.
Followed(d, h, n) ==
    [r \in Path |-> [d[r] EXCEPT !.at = IF @ \in Under(h) THEN Rebase(@, h, n)
                                        ELSE IF @ \in Under(n) THEN Gone ELSE @]]

Change(s) == upper' = s.up /\ dentry' = Reachable(s.d)
-------------------------------------------------------------------------------
\* ovl_lookup, called when the parent is cached and the name is not.
Lookup(p) ==
    /\ Sound
    /\ At(dentry, Parent(p)).hashed /\ Positive(At(dentry, Parent(p)))
    /\ IsDirectory(Parent(p))
    /\ ~dentry[p].hashed
    /\ dentry' = [dentry EXCEPT ![p] = Found(At(dentry, Parent(p)), upper, p)]
    /\ UNCHANGED <<upper, od, tree, misused>>

\* The VFS reclaims an unused dentry: ovl_dentry_release.
Evict(p) ==
    /\ Sound
    /\ dentry[p].hashed
    /\ \A c \in Children(p) : ~dentry[c].hashed
    /\ dentry' = Reachable([dentry EXCEPT ![p] = NoDentry])
    /\ UNCHANGED <<upper, od, tree, misused>>

\* ovl_readdir from offset 0 of the open root: ovl_dir_reset throws away a
\* listing of an older version, and then the list is read again.
ReadRoot ==
    /\ od' = IF od.cached THEN od ELSE [cached |-> TRUE, names |-> MergedNames(Root)]
    /\ UNCHANGED <<lower, upper, dentry, tree, misused>>

Free(p) == dentry[p].hashed /\ ~Positive(dentry[p])
Exists(p) == dentry[p].hashed /\ Positive(dentry[p])

\* The object ovl_create_object makes on a negative dentry.
Made(p, kind) ==
    IF kind = "dir" THEN Directory(dentry[p].opaque) ELSE File(New, {p})

\* ovl_create_object
Create(p, kind) ==
    LET s == CopiedUp(Now, Parent(p))
    IN /\ Sound
       /\ Free(p)
       /\ kind = "dir" => Len(p) = 1
       /\ CanCreate(s, p)
       /\ Change([up |-> [s.up EXCEPT ![p] = Made(p, kind)],
                  d |-> [s.d EXCEPT ![p].at = p]])
       /\ tree' = [tree EXCEPT ![p] = Seen(Made(p, kind))]
       /\ VersionInc(Parent(p))
       /\ UNCHANGED misused

\* open for writing, setattr, setxattr: the file is copied up, and keeps its content.
CopyUp(p) ==
    /\ Sound
    /\ Exists(p)
    /\ Change(CopiedUp(Now, p))
    /\ UNCHANGED <<od, tree, misused>>

\* The file is opened, truncated or not, and written.  A dentry that holds another
\* upper name than p holds the same file (DentriesCurrent).
Write(p) ==
    LET s == CopiedUp(Now, p)
        written == [c \in Path |-> IF c \in s.up[p].same
                                   THEN [s.up[c] EXCEPT !.data = New] ELSE s.up[c]]
    IN /\ Sound
       /\ Exists(p) /\ ~IsDirectory(p)
       /\ Change([s EXCEPT !.up = written])
       /\ tree' = [c \in Path |-> IF c \in s.up[p].same
                                  THEN [tree[c] EXCEPT !.data = New] ELSE tree[c]]
       /\ UNCHANGED <<od, misused>>

\* ovl_do_remove, once the upper directory, if there is one, can be removed: the
\* upper name that the dentry holds goes, and a whiteout takes the place of p,
\* unless something still is there (WARN_ON and EEXIST in ovl_whiteout).
DoRemove(up, p) ==
    LET s == CopiedUp([Now EXCEPT !.up = up], Parent(p))
        inUpper == ovl_path_type(p) # "LOWER"
        h == dentry[p].at
        gone == IF inUpper THEN Unlinked(s.up, h) ELSE s.up
        exists == NeedsWhiteout(p) /\ gone[p].kind # "none"
    IN /\ Holds(p)
       /\ Change([up |-> IF NeedsWhiteout(p) /\ ~exists THEN [gone EXCEPT ![p] = Whiteout] ELSE gone,
                  d |-> [(IF inUpper THEN Released(s.d, h) ELSE s.d) EXCEPT ![p].hashed = FALSE]])
       /\ tree' = IF exists THEN tree ELSE [tree EXCEPT ![p] = Absent]
       /\ VersionInc(Parent(p))
       /\ misused' = Wrong(p)

\* ovl_unlink
Unlink(p) ==
    /\ Sound
    /\ Exists(p) /\ ~IsDirectory(p)
    /\ DoRemove(upper, p)

\* ovl_unlink of a dentry that holds an upper name of another directory (ESTALE),
\* or one that is gone, which the upper filesystem refuses: it is only dropped.
UnlinkStale(p) ==
    /\ Sound
    /\ Exists(p) /\ ~IsDirectory(p)
    /\ ~Holds(p)
    /\ dentry' = Reachable([dentry EXCEPT ![p].hashed = FALSE])
    /\ UNCHANGED <<upper, od, tree, misused>>

\* ovl_check_empty_dir, then the whiteouts of a merged directory go, so that
\* the upper directory is empty for vfs_rmdir or vfs_rename.
Emptied(p) == IF ovl_path_type(p) = "MERGE" THEN WithoutWhiteouts(upper, p) ELSE upper
CanEmpty(p) == Listing(p) = {}

\* ovl_rmdir of an empty directory
Rmdir(p) ==
    /\ Sound
    /\ Exists(p) /\ IsDirectory(p)
    /\ CanEmpty(p)
    /\ DoRemove(Emptied(p), p)

\* ovl_rmdir of an upper directory that vfs_rmdir refuses, but ovl_do_remove drops.
RmdirRefused(p) ==
    /\ Sound
    /\ Exists(p) /\ IsDirectory(p)
    /\ ovl_path_type(p) = "UPPER" /\ ~CanEmpty(p)
    /\ dentry' = Reachable([dentry EXCEPT ![p].hashed = FALSE])
    /\ UNCHANGED <<upper, od, tree, misused>>

\* ovl_link: q gets the overlay inode of p.
Link(p, q) ==
    LET s == CopiedUp(CopiedUp(Now, p), Parent(q))
        file == [s.up[p] EXCEPT !.same = @ \cup {q}]
        names == s.d[p].inode \cup {q}
        d == [s.d EXCEPT ![q].at = q]
    IN /\ Sound
       /\ Exists(p) /\ ~IsDirectory(p) /\ Free(q)
       /\ CanCreate(s, q)
       /\ Change([up |-> [c \in Path |-> IF c \in file.same THEN file ELSE s.up[c]],
                  d |-> [c \in Path |-> IF c \in names THEN [d[c] EXCEPT !.inode = names]
                                        ELSE d[c]]])
       /\ tree' = [tree EXCEPT ![q] = tree[p]]
       /\ VersionInc(Parent(q))
       /\ UNCHANGED misused

\* Mistake: the type of what q replaces is not looked at.
NewOpaque_FlagOnly(q) == dentry[q].opaque

\* The opaque flag ovl_rename gives a directory it moves to q.
NewOpaque(q) == dentry[q].opaque \/ ovl_path_type(q) # "UPPER"

\* f with what is at p and below moved to q, and `none` left at p.
Moved(f, p, q, none) ==
    [r \in Path |->
        IF r \in Under(q) /\ Rebase(r, q, p) \in Path THEN f[Rebase(r, q, p)]
        ELSE IF r \in Under(p) \cup Under(q) THEN none ELSE f[r]]

\* The upper tree after vfs_rename of p to q, with the names of hard links.
Renamed(up, p, q) ==
    LET m == Moved(Unlinked(up, q), p, q, Nothing)
        name(n) == IF n \in Under(p) THEN Rebase(n, p, q) ELSE n
    IN [r \in Path |-> [m[r] EXCEPT !.same = {name(n) : n \in @}]]

\* d_move of the dentry of p, and those below, to q.
DMoved(d, p, q) ==
    LET m == Moved(d, p, q, NoDentry)
        name(n) == IF n \in Under(p) THEN Rebase(n, p, q) ELSE n
    IN [r \in Path |-> [m[r] EXCEPT !.inode = {name(n) : n \in @ \ Under(q)}]]

\* The VFS calls ovl_rename, which does not return early.
Renames(p, q) ==
    /\ Sound
    /\ p # q /\ p # Parent(q) /\ q # Parent(p)
    /\ Exists(p) /\ dentry[q].hashed
    /\ IsDirectory(p) => ovl_path_type(p) = "UPPER" /\ Len(q) = 1
    /\ Exists(q) => /\ IsDirectory(q) = IsDirectory(p)
                    /\ IsDirectory(p) => CanEmpty(q)

SameUpperInode(p, q) ==
    Exists(q) /\ IsUp(dentry[p]) /\ IsUp(dentry[q]) /\ q \in upper[p].same

\* ovl_rename up to lock_rename: both sides are ready in upper.
Prepared(p, q) ==
    LET s == [Now EXCEPT !.up = IF Exists(q) /\ IsDirectory(q) THEN Emptied(q) ELSE upper]
    IN CopiedUp(CopiedUp(s, p), Parent(q))

\* The upper name that vfs_rename is to replace.
Target(q) == IF IsUp(dentry[q]) THEN dentry[q].at ELSE q

\* ovl_rename, and the d_move of the VFS that follows it when it succeeds.  It
\* fails at the end when the whiteout for p finds something in its place.
\* Bound: a rename onto a dentry whose upper name is gone is left out.
Rename(p, q) ==
    LET isDir == IsDirectory(p)
        s == Prepared(p, q)
        h == s.d[p].at
        n == Target(q)
        up1 == Renamed(s.up, h, n)
        exists == NeedsWhiteout(p) /\ up1[p].kind # "none"
        up2 == IF NeedsWhiteout(p) /\ ~exists THEN [up1 EXCEPT ![p] = Whiteout] ELSE up1
        d1 == Followed(s.d, h, n)
        d2 == [DMoved(d1, p, q) EXCEPT ![q].hashed = TRUE, ![q].moved = ~isDir,
                                       ![q].opaque = IF isDir THEN NewOpaque(q) ELSE @]
    IN /\ Renames(p, q) /\ ~SameUpperInode(p, q)
       /\ Holds(p) /\ Holds(q)
       /\ IsUp(dentry[q]) \/ CanCreate(s, q)
       /\ Change([up |-> IF isDir THEN [up2 EXCEPT ![q].opaque = NewOpaque(q)] ELSE up2,
                  d |-> IF exists THEN d1 ELSE d2])
       /\ tree' = IF exists THEN tree ELSE Moved(tree, p, q, Absent)
       /\ od' = IF Root \in {Parent(p), Parent(q)} THEN [cached |-> FALSE, names |-> {}] ELSE od
       /\ misused' = Wrong(p) \cup (IF n = q THEN {} ELSE Under(n) \cup Under(q))
                       \cup (IF exists THEN Under(q) ELSE {})

\* ovl_rename of two names that hold the same upper inode returns 0 at once, and
\* the VFS moves the dentry of p to q, with the upper name it holds.  (When they
\* share the overlay inode as well, the VFS does not even call ovl_rename.)
RenameSame(p, q) ==
    /\ Renames(p, q) /\ SameUpperInode(p, q)
    /\ q \notin dentry[p].inode
    /\ Change([Now EXCEPT !.d = [DMoved(dentry, p, q) EXCEPT ![q].moved = TRUE]])
    /\ UNCHANGED <<od, tree, misused>>

\* ovl_rename fails (ESTALE, or the upper filesystem refuses) when a dentry holds
\* an upper name of another directory, or one that is gone.  What it did before
\* stays, the removal of a whiteout at q included.
RenameStale(p, q) ==
    LET s == Prepared(p, q)
        white == ~IsUp(dentry[q]) /\ s.up[q].kind = "whiteout"
    IN /\ Renames(p, q) /\ ~SameUpperInode(p, q)
       /\ ~Holds(p) \/ (dentry[q].at # Gone /\ ~Holds(q))
       /\ IsUp(dentry[q]) \/ CanCreate(s, q)
       /\ Change([s EXCEPT !.up = IF white THEN [@ EXCEPT ![q] = Nothing] ELSE @])
       /\ misused' = IF white THEN Under(q) ELSE {}
       /\ UNCHANGED <<od, tree>>

Next ==
    \/ ReadRoot
    \/ \E p \in Path :
          \/ Lookup(p) \/ Evict(p)
          \/ Create(p, "file") \/ Create(p, "dir")
          \/ CopyUp(p) \/ Write(p)
          \/ Unlink(p) \/ UnlinkStale(p) \/ Rmdir(p) \/ RmdirRefused(p)
          \/ \E q \in Path :
                Link(p, q) \/ Rename(p, q) \/ RenameSame(p, q) \/ RenameStale(p, q)

Spec == Init /\ [][Next]_vars
-------------------------------------------------------------------------------
(* Properties                                                               *)

\* Every variable has its type, and the upper tree is a tree: an upper name
\* lies in an upper directory, because parents are copied up first.
TypeOK ==
    /\ lower \in LowerTrees
    /\ upper \in [Path -> Object]
    /\ \A p \in Path : Len(p) = 2 /\ upper[p].kind # "none" => upper[Parent(p)].kind = "dir"
    /\ dentry \in [Path -> Dentry]
    /\ od \in [cached : BOOLEAN, names : SUBSET TopPath]
    /\ tree \in [Path -> [kind : {"none", "file", "dir"}, data : Content]]
    /\ misused \in SUBSET Path

\* The union of the two trees, as fresh lookups see it, is the tree that the
\* same operations would have built on an ordinary filesystem: nothing that
\* was removed shows through, nothing in lower that was not removed is
\* hidden, and content travels with a file.  An operation on a dentry that
\* ovl_rename left with a wrong flag or with another name's upper dentry gets
\* the names of Wrong wrong, and no other.
MergedViewExact == \A p \in Path \ misused : View(p) = tree[p]

\* A cached dentry agrees with the two trees however they changed since the
\* lookup: it is of the same path type, and it holds the upper dentry of its own
\* name and has the right opaque flag.  Where ovl_rename moved this dentry of a
\* non-directory, it may be the upper dentry of a hard link to the same file.
DentriesCurrent ==
    \A p \in Path \ misused :
        dentry[p].hashed =>
            /\ IsUp(dentry[p]) = IsUp(Fresh(p))
            /\ dentry[p].at \in Path \ {p} => p \in upper[dentry[p].at].same
            /\ ~dentry[p].moved => /\ dentry[p].at = Fresh(p).at
                                  /\ dentry[p].low = Fresh(p).low
                                  /\ FlagRight(p)

\* ovl_readdir and ovl_lookup, which merge the layers in different ways,
\* agree on the names in every cached directory.
ListingAgrees ==
    \A p \in (TopPath \ misused) \cup {Root} :
        At(dentry, p).hashed /\ Positive(At(dentry, p)) /\ IsDirectory(p) =>
            Listing(p) \ misused = {c \in Children(p) \ misused : View(c).kind # "none"}

\* A listing that ovl_dir_reset would keep is the present one: every
\* operation that changes the names of a directory increments its version.
RewindIsCurrent == od.cached => od.names \ misused = MergedNames(Root) \ misused

\* ovl_whiteout (overlayfs.c:1559) is to "recheck lower dentry to see if whiteout
\* is really needed": there may be one too many, never one too few, so that what
\* lower has under a name that was removed does not come back.
NothingComesBack ==
    \A p \in Path : tree[p].kind = "none" => IsUp(Fresh(p)) \/ ~Fresh(p).low

\* ovl_lookup_create (overlayfs.c:892) relies on there being no whiteouts in
\* a directory that has no lower directory.
NoWhiteoutWithoutLower ==
    \A p \in TopPath :
        upper[p].kind = "dir" /\ ~Fresh(p).low =>
            \A c \in Children(p) : upper[c].kind # "whiteout"
===============================================================================
