----------------------------- MODULE Filesystem -----------------------------
(***************************************************************************)
(* The operations of examples/http/inner/filesystem.hpp on a tree of       *)
(* directories, files and symbolic links (POSIX branch).  A path is        *)
(* [abs, el]: its elements, without the root; a node is the sequence of    *)
(* names that leads to it from the root.  Operations return the tree and   *)
(* the error code they leave in ec ("" when clear).  Permissions, times    *)
(* and hard links are not modelled; the current directory is the root.     *)
(***************************************************************************)
EXTENDS Integers, Sequences, SequencesExt, FiniteSetsExt

CONSTANTS Names,      \* names of directory entries
          MaxDepth,   \* bound: deepest node; making one below it fails (ENAMETOOLONG)
          Targets,    \* targets of symbolic links
          Paths,      \* paths handed to the operations
          Contents,   \* what a file may hold
          Creators    \* processes that call create_directories

VARIABLES fs,         \* node -> [type, to, data]
          job         \* per creator: the call in progress and its result

fsvars == <<fs, job>>

Dir == [type |-> "directory", to |-> [abs |-> FALSE, el |-> <<>>], data |-> 0]
File(d) == [Dir EXCEPT !.type = "regular", !.data = d]
Link(t) == [Dir EXCEPT !.type = "symlink", !.to = t]

MaxLinks == 4         \* the kernel's ELOOP bound, 40 in the real system
NotFound == {"ENOENT", "ENOTDIR"}                 \* is_not_found_error

AbsPath(n) == [abs |-> TRUE, el |-> n]
Under(n, top) == Len(n) >= Len(top) /\ SubSeq(n, 1, Len(top)) = top
Slash(p, e) == [p EXCEPT !.el = Append(@, e)]
Join(p, q) == IF q.abs THEN q ELSE [p EXCEPT !.el = @ \o q.el]

-----------------------------------------------------------------------------
(* The kernel. *)

(* Path resolution from directory `at`; the last link is followed if asked.
   at is the node reached or the one missing, left the elements after it. *)
RECURSIVE Walk(_, _, _, _, _)
Walk(f, at, el, follow, links) ==
    LET e == Head(el)  rest == Tail(el)  n == Append(at, e)
        Fail(c) == [err |-> c, at |-> n, left |-> rest]
    IN  IF el = <<>> THEN [err |-> "", at |-> at, left |-> <<>>]
        ELSE IF f[at].type # "directory" THEN Fail("ENOTDIR")
        ELSE IF e \in {".", ""} THEN Walk(f, at, rest, follow, links)
        ELSE IF e = ".." THEN Walk(f, IF at = <<>> THEN at ELSE Front(at), rest, follow, links)
        ELSE IF n \notin DOMAIN f THEN Fail("ENOENT")
        ELSE IF f[n].type = "symlink" /\ (follow \/ rest # <<>>)
             THEN IF links = 0 THEN Fail("ELOOP")
                  ELSE Walk(f, IF f[n].to.abs THEN <<>> ELSE at, f[n].to.el \o rest, follow, links - 1)
        ELSE Walk(f, n, rest, follow, links)

stat(f, p) == Walk(f, <<>>, p.el, TRUE, MaxLinks)
lstat(f, p) == Walk(f, <<>>, p.el, FALSE, MaxLinks)

(* mkdir, symlink and open with O_CREAT | O_EXCL: the new node. *)
Make(f, p, node) ==
    LET w == lstat(f, p)
    IN  CASE w.err = "" -> [f |-> f, ec |-> "EEXIST"]
          [] w.err # "" /\ (w.err # "ENOENT" \/ w.left # <<>>) -> [f |-> f, ec |-> w.err]
          [] OTHER -> IF Len(w.at) > MaxDepth THEN [f |-> f, ec |-> "ENAMETOOLONG"]
                      ELSE [f |-> [n \in DOMAIN f \cup {w.at} |->
                                       IF n = w.at THEN node ELSE f[n]],
                            ec |-> ""]

Children(f, n) == {m \in DOMAIN f : Len(m) = Len(n) + 1 /\ Under(m, n)}

(* unlink or rmdir *)
unlink(f, p) ==
    LET w == lstat(f, p)
    IN  CASE w.err # "" -> [f |-> f, ec |-> w.err]
          [] w.err = "" /\ (w.at = <<>> \/ Children(f, w.at) # {}) -> [f |-> f, ec |-> "ENOTEMPTY"]
          [] OTHER -> [f |-> [n \in DOMAIN f \ {w.at} |-> f[n]], ec |-> ""]

(* The entries readdir shows, in some fixed order. *)
readdir(f, p) == LET d == stat(f, p).at IN
    SetToSeq({Last(n) : n \in Children(f, d)})

-----------------------------------------------------------------------------
(* Status. *)

StatusOf(f, w) ==
    [ec |-> w.err, type |-> IF w.err = "" THEN f[w.at].type
                            ELSE IF w.err \in NotFound THEN "not_found" ELSE "none"]

symlink_status(f, p) == StatusOf(f, lstat(f, p))

(* status_ex: lstat, and stat when that shows a link. *)
status(f, p) ==
    LET l == lstat(f, p)
    IN  StatusOf(f, IF l.err = "" /\ f[l.at].type = "symlink" THEN stat(f, p) ELSE l)

exists(s) == s.type \notin {"none", "not_found"}
is_directory(s) == s.type = "directory"
is_regular_file(s) == s.type = "regular"
is_symlink(s) == s.type = "symlink"

equivalent(f, p, q) ==
    LET a == stat(f, p)  b == stat(f, q)
    IN  [is |-> a.err = "" /\ b.err = "" /\ a.at = b.at,
         ec |-> IF a.err # "" THEN a.err ELSE b.err]

read_symlink(f, p) ==
    IF is_symlink(symlink_status(f, p)) THEN [p |-> f[lstat(f, p).at].to, ec |-> ""]
    ELSE [p |-> [abs |-> FALSE, el |-> <<>>], ec |-> "EINVAL"]

absolute(p) == [p EXCEPT !.abs = TRUE]            \* current_path() / p

-----------------------------------------------------------------------------
(* canonical and weakly_canonical. *)

(* One pass over the elements of work; st is [p, redo, ec]. *)
CanonStep(f, st, e) ==
    LET q == Slash(st.p, e)  t == read_symlink(f, q)  s == symlink_status(f, q)
    IN  CASE st.ec # "" \/ e \in {"", "."} -> st
          [] st.ec = "" /\ e = ".." ->
                [st EXCEPT !.p.el = IF @ = <<>> THEN @ ELSE Front(@)]
          [] OTHER -> IF s.ec # "" THEN [st EXCEPT !.ec = s.ec]
                      ELSE IF is_symlink(s) THEN [p |-> Join(st.p, t.p), redo |-> TRUE, ec |-> t.ec]
                      ELSE [st EXCEPT !.p = q]

RECURSIVE Canon(_, _)
Canon(f, work) ==
    LET st == FoldLeft(LAMBDA s, e : CanonStep(f, s, e),
                       [p |-> AbsPath(<<>>), redo |-> FALSE, ec |-> ""], work.el)
    IN  IF st.ec # "" \/ ~st.redo THEN st ELSE Canon(f, st.p)

NoPath(ec) == [p |-> [abs |-> FALSE, el |-> <<>>], ec |-> ec]

canonical(f, p) ==
    LET s == status(f, absolute(p))  st == Canon(f, absolute(p))
    IN  CASE p.el = <<>> /\ ~p.abs -> NoPath("ENOENT")
          [] s.ec # "" -> NoPath(s.ec)
          [] OTHER -> IF st.ec # "" THEN NoPath(st.ec) ELSE [p |-> st.p, ec |-> ""]

(* The longest prefix of p that exists, resolved, and the rest as it is
   (before the final lexically_normal). *)
weakly_canonical(f, p) ==
    LET Pre(k) == [p EXCEPT !.el = SubSeq(@, 1, k)]
        Has(k) == \A j \in 1 .. k : exists(status(f, Pre(j)))
        k == Max({j \in 0 .. Len(p.el) : Has(j)})
        c == canonical(f, Pre(k))
    IN  IF k = 0 /\ ~p.abs THEN [p |-> p, ec |-> ""]
        ELSE IF c.ec # "" THEN NoPath(c.ec)
        ELSE [p |-> [c.p EXCEPT !.el = @ \o SubSeq(p.el, k + 1, Len(p.el))], ec |-> ""]

-----------------------------------------------------------------------------
(* Creating, copying and removing. *)

create_directory(f, p) ==
    IF is_directory(status(f, p)) THEN [f |-> f, ec |-> ""] ELSE Make(f, p, Dir)

copy_file(f, from, to, options) ==
    LET sf == status(f, from)  st == status(f, to)
        data == f[stat(f, from).at].data
    IN  CASE ~is_regular_file(sf) -> [f |-> f, ec |-> sf.ec]
          [] is_regular_file(sf) /\ exists(st) ->
                IF "skip_existing" \in options THEN [f |-> f, ec |-> ""]
                ELSE IF \/ ~is_regular_file(st) \/ equivalent(f, from, to).is
                        \/ "overwrite_existing" \notin options
                THEN [f |-> f, ec |-> IF st.ec # "" THEN st.ec ELSE "EEXIST"]
                ELSE [f |-> [f EXCEPT ![stat(f, to).at].data = data], ec |-> ""]
          [] OTHER -> Make(f, to, File(data))

copy_symlink(f, from, to) ==
    LET t == read_symlink(f, from)
    IN  IF t.ec # "" THEN [f |-> f, ec |-> t.ec] ELSE Make(f, to, Link(t.p))

(* ec is what earlier calls left in the variable the entries share. *)
RECURSIVE copy(_, _, _, _)
copy(f, from, to, options) ==
    LET On(S) == options \cap S # {}
        sf == IF On({"skip_symlinks", "copy_symlinks", "create_symlinks"})
              THEN symlink_status(f, from) ELSE status(f, from)
        st == IF On({"skip_symlinks", "create_symlinks"})
              THEN symlink_status(f, to) ELSE status(f, to)
        eq == equivalent(f, from, to)
        ec == IF exists(st) THEN eq.ec ELSE ""
        Fail(c) == [f |-> f, ec |-> c]
        name == Last(from.el)
        made == IF exists(st) THEN Fail(ec) ELSE create_directory(f, to)
        Entry(r, e) == IF r.ec # "" THEN r
                       ELSE copy(r.f, Slash(from, e), Slash(to, e), options \cup {"internal"})
    IN  CASE ~exists(sf) -> Fail(IF sf.ec # "" THEN sf.ec ELSE "ENOENT")
          [] exists(sf) /\ \/ is_directory(sf) /\ is_regular_file(st)
                           \/ exists(st) /\ eq.is -> Fail("EINVAL")
          [] OTHER ->
             IF is_symlink(sf)
             THEN IF On({"skip_symlinks"}) THEN Fail(ec)
                  ELSE IF ~exists(st) /\ On({"copy_symlinks"}) THEN copy_symlink(f, from, to)
                  ELSE Fail("EINVAL")
             ELSE IF is_regular_file(sf)
             THEN IF On({"directories_only"}) THEN Fail(ec)
                  ELSE IF On({"create_symlinks"}) THEN Make(f, to, Link(from))
                  ELSE copy_file(f, from, IF is_directory(st) THEN Slash(to, name) ELSE to, options)
             ELSE IF On({"create_symlinks"}) THEN Fail("EISDIR")
             ELSE IF options = {} \/ On({"recursive"})
             THEN IF made.ec # "" THEN made
                  ELSE FoldLeft(Entry, made, readdir(f, from))
             ELSE Fail(ec)

remove(f, p) ==
    LET u == unlink(f, p) IN [u EXCEPT !.ec = IF @ = "ENOENT" THEN "" ELSE @]

(* Mutant: the entries' own type is not looked at, so a link to a directory
   is emptied like the directory. *)
RECURSIVE remove_allFollow(_, _)
remove_allFollow(f, p) ==
    LET Entry(r, e) == IF r.ec # "" THEN r ELSE remove_allFollow(r.f, Slash(p, e))
        emptied == IF is_directory(status(f, p))
                   THEN FoldLeft(Entry, [f |-> f, ec |-> ""], readdir(f, p))
                   ELSE [f |-> f, ec |-> ""]
    IN  CASE p = AbsPath(<<>>) -> [f |-> f, ec |-> "ENOTSUP"]
          [] OTHER -> IF emptied.ec # "" THEN emptied ELSE remove(emptied.f, p)

RECURSIVE remove_all(_, _)
remove_all(f, p) ==
    LET Entry(r, e) == IF r.ec # "" THEN r ELSE remove_all(r.f, Slash(p, e))
        emptied == IF is_directory(symlink_status(f, p))
                   THEN FoldLeft(Entry, [f |-> f, ec |-> ""], readdir(f, p))
                   ELSE [f |-> f, ec |-> ""]
    IN  CASE p = AbsPath(<<>>) -> [f |-> f, ec |-> "ENOTSUP"]
          [] OTHER -> IF emptied.ec # "" THEN emptied ELSE remove(emptied.f, p)

-----------------------------------------------------------------------------
(* recursive_directory_iterator: the stack of open directories, each the
   entries it has still to show, the current one first. *)

Top(stack) == Last(stack)
Bump(stack) == Append(Front(stack), [Top(stack) EXCEPT !.left = Tail(@)])

RECURSIVE PopEnded(_)
PopEnded(stack) ==
    IF Len(stack) > 1 /\ Top(stack).left = <<>> THEN PopEnded(Bump(Front(stack))) ELSE stack

Opened(f, p) == [dir |-> p, left |-> readdir(f, p)]

(* increment: [stack, ec]; links to directories are not followed. *)
RecursiveIncrement(f, stack) ==
    LET q == Slash(Top(stack).dir, Head(Top(stack).left))
        isSymLink == is_symlink(symlink_status(f, q))
        s == status(f, q)
        ec == IF isSymLink /\ s.ec \in NotFound THEN "" ELSE s.ec
    IN  IF ec # "" THEN [stack |-> stack, ec |-> ec]
        ELSE [stack |-> PopEnded(IF is_directory(s) /\ ~isSymLink
                                 THEN Append(stack, Opened(f, q)) ELSE Bump(stack)),
              ec |-> ""]

(* The nodes a loop over the iterator visits, or the error that ends it. *)
RECURSIVE Visit(_, _, _)
Visit(f, stack, seen) ==
    LET r == RecursiveIncrement(f, stack)
        here == Append(seen, Slash(Top(stack).dir, Head(Top(stack).left)).el)
    IN  IF Top(stack).left = <<>> THEN [seen |-> seen, ec |-> ""]
        ELSE IF r.ec # "" THEN [seen |-> here, ec |-> r.ec]
        ELSE Visit(f, r.stack, here)

-----------------------------------------------------------------------------
(* create_directories, a system call a step: processes make the same
   directories at the same time. *)

Idle == \A c \in Creators : job[c].pc \in {"idle", "done"}

NoJob == [pc |-> "idle", p |-> AbsPath(<<>>), i |-> 0, ec |-> ""]

Current(j) == [j.p EXCEPT !.el = SubSeq(@, 1, j.i)]

Advance(j) == IF j.i = Len(j.p.el) THEN [j EXCEPT !.pc = "done"]
              ELSE [j EXCEPT !.i = @ + 1, !.pc = "status"]

create_directories(c) ==
    \/ /\ job[c].pc = "idle"
       /\ \E p \in Paths : p.el # <<>> /\ job' = [job EXCEPT ![c] = Advance([NoJob EXCEPT !.p = p])]
       /\ UNCHANGED fs
    \/ /\ job[c].pc = "status"
       /\ LET j == job[c]  s == status(fs, Current(j))
          IN  job' = [job EXCEPT ![c] =
                  CASE s.ec # "" /\ s.type # "not_found" -> [j EXCEPT !.pc = "done", !.ec = s.ec]
                    [] s.type = "not_found" -> [j EXCEPT !.pc = "mkdir"]
                    [] exists(s) /\ ~is_directory(s) -> [j EXCEPT !.pc = "done", !.ec = "EEXIST"]
                    [] OTHER -> Advance(j)]
       /\ UNCHANGED fs
    \/ /\ job[c].pc = "mkdir"                     \* create_directory
       /\ LET r == create_directory(fs, Current(job[c]))
          IN  /\ fs' = r.f
              /\ job' = [job EXCEPT ![c] = IF r.ec = "" THEN Advance(@)
                                           ELSE [@ EXCEPT !.pc = "check", !.ec = r.ec]]
    \/ /\ job[c].pc = "check"                     \* made by another process meanwhile?
       /\ job' = [job EXCEPT ![c] = IF is_directory(status(fs, Current(@)))
                                    THEN Advance([@ EXCEPT !.ec = ""])
                                    ELSE [@ EXCEPT !.pc = "done"]]
       /\ UNCHANGED fs

-----------------------------------------------------------------------------
FsInit == fs = [n \in {<<>>} |-> Dir] /\ job = [c \in Creators |-> NoJob]

(* One process works on the tree when nobody is creating directories. *)
Apply(f) == Idle /\ fs' = f /\ job' = [c \in Creators |-> NoJob]

CopyOptions == {{}, {"recursive"}, {"recursive", "copy_symlinks"},
                {"recursive", "overwrite_existing"}}

(* The target of a recursive copy does not lie inside its source. *)
Apart(f, from, to) ==
    LET a == stat(f, from)  b == stat(f, to) IN a.err # "" \/ ~Under(b.at, a.at)

FsNext ==
    \/ \E c \in Creators : create_directories(c)
    \/ \E p \in Paths, d \in Contents : Apply(Make(fs, p, File(d)).f)
    \/ \E p \in Paths, t \in Targets : Apply(Make(fs, p, Link(t)).f)
    \/ \E p, q \in Paths, o \in CopyOptions :
          p.el # <<>> /\ Apart(fs, p, q) /\ Apply(copy(fs, p, q, o).f)
    \/ \E p \in Paths : Apply(remove(fs, p).f)
    \/ \E p \in Paths : Apply(remove_all(fs, p).f)

-----------------------------------------------------------------------------
(* The tree stays a tree, and create_directories that returns without error
   has made a directory of its path; with an error only when a file or a link
   stands on the path, whoever else creates the same directories (the
   is_directory check after a failed create_directory). *)
CreatesDespiteRace ==
    /\ \A n \in DOMAIN fs : n # <<>> => fs[Front(n)].type = "directory"
    /\ \A c \in Creators : job[c].pc = "done" =>
          IF job[c].ec = "" THEN is_directory(status(fs, job[c].p))
          ELSE \E k \in 1 .. job[c].i :
                  symlink_status(fs, Current([job[c] EXCEPT !.i = k])).type \in {"regular", "symlink"}

PlainTargets(f) ==
    \A n \in DOMAIN f : f[n].type = "symlink" =>
        LET w == lstat(f, Join(AbsPath(Front(n)), f[n].to))
        IN  /\ ".." \notin ToSet(f[n].to.el)
            /\ w.err # "" \/ f[w.at].type # "symlink"

(* canonical names the node the kernel finds, by a path with no link in it,
   and fails when the kernel does; weakly_canonical resolves what exists of
   the path.  The first holds only where no link leads to a link or through
   "..": a link's target is joined unresolved, and a ".." after it is taken
   off the text. *)
CanonicalIsReal ==
    \A p \in Paths :
        LET w == stat(fs, p)  c == canonical(fs, p)  k == weakly_canonical(fs, p)
        IN  PlainTargets(fs) /\ (p.abs \/ p.el # <<>>) =>
                /\ c.ec = w.err
                /\ c.ec = "" => c.p = AbsPath(w.at)
                /\ k.ec = "" => stat(fs, k.p) = w \/ w.err # ""

(* A recursive copy to a place where nothing is shows, at every path below
   it, what the source shows there, or fails; remove_all takes away the node
   and what lies below it and nothing a link leads to; the recursive iterator
   visits every node below a directory once.  (For paths that do not lead
   through a link, which the operation might take away under its own feet.) *)
TreesAreWhole ==
    Idle => \A p \in Paths :
        LET n == lstat(fs, p)  r == remove_all(fs, p)
            below == {m \in DOMAIN fs : m # n.at /\ Under(m, n.at)}
            v == Visit(fs, <<Opened(fs, AbsPath(n.at))>>, <<>>)
        IN  n.err = "" /\ n.at = p.el =>
            /\ p # AbsPath(<<>>) /\ n.at # <<>> =>
                  r.ec = "" /\ DOMAIN r.f = DOMAIN fs \ ({n.at} \cup below)
            /\ fs[n.at].type = "directory" /\ v.ec = "" =>
                  ToSet(v.seen) = below /\ Len(v.seen) = Cardinality(below)
            /\ \A q \in Paths :
                  LET c == copy(fs, p, q, {"recursive"})
                  IN  lstat(fs, q).err = "ENOENT" /\ Apart(fs, p, q) /\ p.el # <<>> /\ c.ec = "" =>
                      \A e \in {<<>>} \cup {<<x>> : x \in Names} :
                          LET a == status(fs, [p EXCEPT !.el = @ \o e])
                              b == status(c.f, [q EXCEPT !.el = @ \o e])
                          IN  a.type = b.type

FilesystemLaws == CreatesDespiteRace /\ CanonicalIsReal /\ TreesAreWhole
=============================================================================
